---------------------------- MODULE Spec2Model ----------------------------
(***************************************************************************)
(* Model of the traffic-map commute tool: the destination list kept by     *)
(* DestinationManager, the raw sample store and view configuration kept by *)
(* TrafficHeatmap, the multi-destination fetch of the traffic router, and  *)
(* the aggregation (getCurrentData / getCombinedData) that reduces the     *)
(* store to one point per origin.                                          *)
(*                                                                         *)
(* Numbers.  A trip count is an integer (the inputs store parseInt(...) || *)
(* 0), and so are the sums of trip counts and the lengths of lists; they   *)
(* are kept as integers.  Every other number (a stored duration, a total   *)
(* time, a quotient, a mean, a delay, a colour channel, a legend value) is *)
(* an IEEE double, NaN and the infinities included, computed with the      *)
(* rounding of the hardware.  -0 is not told from 0.                       *)
(*                                                                         *)
(* Samples carry origin, status and duration; neighborhood and distance    *)
(* are copied unchanged by the code and read by no operation modelled.     *)
(***************************************************************************)
EXTENDS Integers, Sequences, FiniteSets, TLC

\* ------------------------------------------------------------------ bounds
MaxDest == 2        \* destination ids are 1..MaxDest
MaxTrips == 2       \* trip counts per week are 0..MaxTrips
NumOrigins == 1     \* grid origins are 1..NumOrigins
NumPlaces == 2      \* places a user can name are 1..NumPlaces
MaxTyped == 1       \* trip counts typed into the manager are 0..MaxTyped
DelayDests == 3     \* destinations of the stores the delays are taken over

Origins == 1..NumOrigins


\* the grid of the router: its address list holds GridSize addresses,
\* written 1..GridSize in the order of the list
GridSize == 50
SfAddresses == [k \in 1..GridSize |-> k]

\* getSanFranciscoGrid: the addresses of that list
getSanFranciscoGrid == SfAddresses

DestIds == 1..MaxDest
Trips == 0..MaxTrips
\* durations (seconds) the provider reports for a routed origin
Durations == {300, 600}
\* the destination filter value "all" (destination ids are positive)
All == 0

\* ------------------------------------------------ IEEE-754 double arithmetic
\* A JavaScript number is kept as [kind, neg, m, e].  A finite number
\* (kind "num") has the value (-1)^neg * m * 2^e with m a natural number of
\* at most 53 bits, odd unless the value is 0; m is written in limbs of 15
\* bits, least significant first, without leading zero limbs.  The
\* infinities have kind "inf" and NaN has kind "nan".  Every operation
\* computes the exact result and rounds it to 53 bits, ties to even, as the
\* hardware does.  The magnitudes of the model stay far inside the exponent
\* range of a double, so no operation overflows or underflows.  -0 is kept
\* as 0: no divisor of the program can be -0, and every other operation
\* treats the two alike.
LimbBase == 32768

RECURSIVE BNorm(_)
BNorm(a) ==
  IF a = <<>> THEN a
  ELSE IF a[Len(a)] = 0 THEN BNorm(SubSeq(a, 1, Len(a) - 1)) ELSE a

\* a natural number below 2^31 in limbs
BFromInt(x) ==
  BNorm(<< x % LimbBase, (x \div LimbBase) % LimbBase,
           x \div (LimbBase * LimbBase) >>)

\* a number of at most two limbs as an integer
BToInt(a) ==
  IF a = <<>> THEN 0
  ELSE IF Len(a) = 1 THEN a[1] ELSE a[1] + LimbBase * a[2]

RECURSIVE BAddC(_, _, _)
BAddC(a, b, c) ==
  IF a = <<>> /\ b = <<>> THEN (IF c = 0 THEN <<>> ELSE << c >>)
  ELSE LET x == (IF a = <<>> THEN 0 ELSE Head(a))
                  + (IF b = <<>> THEN 0 ELSE Head(b)) + c
       IN  << x % LimbBase >>
             \o BAddC(IF a = <<>> THEN a ELSE Tail(a),
                      IF b = <<>> THEN b ELSE Tail(b), x \div LimbBase)

BAdd(a, b) == BAddC(a, b, 0)

\* a - b - borrow for a >= b
RECURSIVE BSubB(_, _, _)
BSubB(a, b, borrow) ==
  IF a = <<>> THEN <<>>
  ELSE LET x == Head(a) - (IF b = <<>> THEN 0 ELSE Head(b)) - borrow
       IN  << IF x < 0 THEN x + LimbBase ELSE x >>
             \o BSubB(Tail(a), IF b = <<>> THEN b ELSE Tail(b),
                      IF x < 0 THEN 1 ELSE 0)

BSub(a, b) == BNorm(BSubB(a, b, 0))

RECURSIVE BCmpFrom(_, _, _)
BCmpFrom(a, b, i) ==
  IF i = 0 THEN 0
  ELSE IF a[i] > b[i] THEN 1
  ELSE IF a[i] < b[i] THEN -1
  ELSE BCmpFrom(a, b, i - 1)

\* -1, 0 or 1 as a < b, a = b or a > b
BCmp(a, b) ==
  IF Len(a) > Len(b) THEN 1
  ELSE IF Len(a) < Len(b) THEN -1
  ELSE BCmpFrom(a, b, Len(a))

\* a * k + c for a limb k
RECURSIVE BMulC(_, _, _)
BMulC(a, k, c) ==
  IF a = <<>> THEN (IF c = 0 THEN <<>> ELSE << c >>)
  ELSE LET x == Head(a) * k + c
       IN  << x % LimbBase >> \o BMulC(Tail(a), k, x \div LimbBase)

BMulSmall(a, k) == IF k = 0 THEN <<>> ELSE BMulC(a, k, 0)

RECURSIVE BMulRec(_, _)
BMulRec(a, b) ==
  IF b = <<>> THEN <<>>
  ELSE BAdd(BMulSmall(a, Head(b)), << 0 >> \o BMulRec(a, Tail(b)))

BMul(a, b) == BNorm(BMulRec(a, b))

\* quotient (one limb per limb of a) and remainder of a by a limb k
RECURSIVE BDivS(_, _)
BDivS(a, k) ==
  IF a = <<>> THEN [q |-> <<>>, r |-> 0]
  ELSE LET hi == BDivS(Tail(a), k)
           x == hi.r * LimbBase + Head(a)
       IN  [q |-> << x \div k >> \o hi.q, r |-> x % k]

\* a * 2^n
BShl(a, n) ==
  IF a = <<>> THEN a
  ELSE [i \in 1..(n \div 15) |-> 0] \o BMulSmall(a, 2 ^ (n % 15))

\* floor(a / 2^n)
BShr(a, n) ==
  IF n \div 15 >= Len(a) THEN <<>>
  ELSE BNorm(BDivS(SubSeq(a, (n \div 15) + 1, Len(a)), 2 ^ (n % 15)).q)

RECURSIVE BitLenSmall(_)
BitLenSmall(x) == IF x = 0 THEN 0 ELSE 1 + BitLenSmall(x \div 2)

\* the number of bits of a
BBitLen(a) ==
  IF a = <<>> THEN 0 ELSE 15 * (Len(a) - 1) + BitLenSmall(a[Len(a)])

RECURSIVE TzSmall(_)
TzSmall(x) == IF x % 2 = 1 THEN 0 ELSE 1 + TzSmall(x \div 2)

\* the number of trailing zero bits of a # 0
RECURSIVE BTz(_)
BTz(a) == IF Head(a) = 0 THEN 15 + BTz(Tail(a)) ELSE TzSmall(Head(a))

\* one limb of the quotient of r by d, for r < d * LimbBase and the top
\* limb of d at least LimbBase / 2: the estimate from the top limbs is at
\* most two too large
QuotientLimb(r, d) ==
  LET n == Len(d)
      top == (IF Len(r) > n THEN r[n + 1] ELSE 0) * LimbBase
               + (IF Len(r) >= n THEN r[n] ELSE 0)
      est == top \div d[n]
      q0 == IF est >= LimbBase THEN LimbBase - 1 ELSE est
      p0 == BMulSmall(d, q0)
      over0 == BCmp(p0, r) > 0
      q1 == IF over0 THEN q0 - 1 ELSE q0
      p1 == IF over0 THEN BSub(p0, d) ELSE p0
      over1 == BCmp(p1, r) > 0
      q2 == IF over1 THEN q1 - 1 ELSE q1
      p2 == IF over1 THEN BSub(p1, d) ELSE p1
  IN  [q |-> q2, r |-> BSub(r, p2)]

\* n more limbs of the quotient of r by d, for r < d, and the remainder
RECURSIVE BDivLimbs(_, _, _, _)
BDivLimbs(r, d, n, q) ==
  IF n = 0 \/ Len(q) < 0 THEN [q |-> BNorm(q), r |-> r]
  ELSE LET step == QuotientLimb(IF r = <<>> THEN r ELSE << 0 >> \o r, d)
       IN  BDivLimbs(step.r, d, n - 1, << step.q >> \o q)

FZero == [kind |-> "num", neg |-> FALSE, m |-> <<>>, e |-> 0]

NaN == [kind |-> "nan", neg |-> FALSE, m |-> <<>>, e |-> 0]

Infinity == [kind |-> "inf", neg |-> FALSE, m |-> <<>>, e |-> 0]

NegInfinity == [kind |-> "inf", neg |-> TRUE, m |-> <<>>, e |-> 0]

IsNaN(a) == a.kind = "nan"

\* m * 2^e with the trailing zero bits of m moved into the exponent
FNorm(neg, m, e) ==
  IF m = <<>> THEN FZero
  ELSE LET t == BTz(m)
       IN  [kind |-> "num", neg |-> neg, m |-> BShr(m, t), e |-> e + t]

\* the double nearest to m * 2^e (plus a little, when sticky), ties to even
FRound(neg, m, e, sticky) ==
  LET len == BBitLen(m)
  IN  IF len <= 53 THEN FNorm(neg, m, e)
      ELSE LET n == len - 53
               q == BShr(m, n)
               rem == BSub(m, BShl(q, n))
               c == BCmp(rem, BShl(<< 1 >>, n - 1))
               up == c > 0 \/ (c = 0 /\ (sticky \/ q[1] % 2 = 1))
           IN  FNorm(neg, IF up THEN BAdd(q, << 1 >>) ELSE q, e + n)

\* an integer below 2^31 in absolute value as a number
FInt(x) == FNorm(x < 0, BFromInt(IF x < 0 THEN -x ELSE x), 0)

\* -a
FNeg(a) ==
  IF a.kind = "nan" \/ (a.kind = "num" /\ a.m = <<>>) THEN a
  ELSE [a EXCEPT !.neg = ~a.neg]

\* a + b on finite numbers
FAddFinite(a, b) ==
  IF a.m = <<>> THEN b
  ELSE IF b.m = <<>> THEN a
  ELSE LET e == IF a.e < b.e THEN a.e ELSE b.e
           ma == BShl(a.m, a.e - e)
           mb == BShl(b.m, b.e - e)
           c == BCmp(ma, mb)
       IN  IF a.neg = b.neg THEN FRound(a.neg, BAdd(ma, mb), e, FALSE)
           ELSE IF c = 0 THEN FZero
           ELSE IF c > 0 THEN FRound(a.neg, BSub(ma, mb), e, FALSE)
           ELSE FRound(b.neg, BSub(mb, ma), e, FALSE)

\* a + b: NaN with a NaN operand and for Infinity + -Infinity
FAdd(a, b) ==
  IF a.kind = "nan" \/ b.kind = "nan" THEN NaN
  ELSE IF a.kind = "inf"
  THEN (IF b.kind = "inf" /\ b.neg # a.neg THEN NaN ELSE a)
  ELSE IF b.kind = "inf" THEN b
  ELSE FAddFinite(a, b)

\* a - b
FSub(a, b) == FAdd(a, FNeg(b))

\* a * b: NaN with a NaN operand and for Infinity * 0
FMul(a, b) ==
  IF a.kind = "nan" \/ b.kind = "nan" THEN NaN
  ELSE IF a.kind = "inf" \/ b.kind = "inf"
  THEN (IF (a.kind = "num" /\ a.m = <<>>) \/ (b.kind = "num" /\ b.m = <<>>)
        THEN NaN
        ELSE IF a.neg # b.neg THEN NegInfinity ELSE Infinity)
  ELSE FRound(a.neg # b.neg, BMul(a.m, b.m), a.e + b.e, FALSE)

\* a / b on finite numbers, b # 0: the divisor is scaled until its top limb
\* is at least LimbBase / 2 and it is longer than the dividend, the dividend
\* until it is one bit shorter than the divisor; four limbs of the quotient
\* and the remainder then decide the rounding
FDivFinite(a, b) ==
  IF a.m = <<>> THEN FZero
  ELSE LET la == BBitLen(a.m)
           sd == 15 * Len(b.m) - BBitLen(b.m)
           d0 == BShl(b.m, sd)
           k == IF la >= 15 * Len(d0) THEN (la - 15 * Len(d0)) \div 15 + 1 ELSE 0
           d == [i \in 1..k |-> 0] \o d0
           t == 15 * Len(d) - 1 - la
           res == BDivLimbs(BShl(a.m, t), d, 4, <<>>)
       IN  FRound(a.neg # b.neg, res.q, a.e - t - b.e + sd + 15 * k - 60,
                  res.r # <<>>)

\* a / b: NaN with a NaN operand, for 0 / 0 and for Infinity / Infinity;
\* x / 0 is an infinity of the sign of x
FDiv(a, b) ==
  IF a.kind = "nan" \/ b.kind = "nan" THEN NaN
  ELSE IF a.kind = "inf"
  THEN (IF b.kind = "inf" THEN NaN
        ELSE IF a.neg # b.neg THEN NegInfinity ELSE Infinity)
  ELSE IF b.kind = "inf" THEN FZero
  ELSE IF b.m = <<>>
  THEN (IF a.m = <<>> THEN NaN ELSE IF a.neg THEN NegInfinity ELSE Infinity)
  ELSE FDivFinite(a, b)

\* a < b (false with a NaN operand)
FLess(a, b) ==
  IF a.kind = "nan" \/ b.kind = "nan" THEN FALSE
  ELSE IF a.kind = "inf" THEN a.neg /\ ~(b.kind = "inf" /\ b.neg)
  ELSE IF b.kind = "inf" THEN ~b.neg
  ELSE LET d == FAddFinite(a, FNeg(b)) IN d.m # <<>> /\ d.neg

\* Math.floor; a finite argument is below 2^30 in absolute value
FFloor(a) ==
  IF a.kind # "num" \/ a.m = <<>> THEN a
  ELSE IF a.e >= 0 THEN a
  ELSE LET q == BToInt(BShr(a.m, -a.e))
       IN  FInt(IF a.neg THEN -(q + 1) ELSE q)

\* the literal 0.5
Half == FDiv(FInt(1), FInt(2))

\* Math.round: the nearest integer, halves towards +Infinity
JsRound(a) ==
  LET floor == FFloor(a)
  IN  IF a.kind # "num" THEN a
      ELSE IF FLess(FSub(a, floor), Half) THEN floor
      ELSE FAdd(floor, FInt(1))

\* a / b for a number a and an integer b (a sum of trip counts, a length)
JsDiv(a, b) == FDiv(a, FInt(b))

\* x > 0 (false on NaN)
GtZero(x) == FLess(FZero, x)

\* times.reduce((sum, time) => sum + time, 0): the sum taken from the left
RECURSIVE SumSeq(_)
SumSeq(s) ==
  IF s = <<>> THEN FZero
  ELSE FAdd(SumSeq(SubSeq(s, 1, Len(s) - 1)), s[Len(s)])

\* ------------------------------------------------------------------ state
VARIABLES
  destinations,         \* TrafficHeatmap: Destination[]
  travelData,           \* TrafficHeatmap: {rush, offpeak: DestinationData[]}
  selectedTime,         \* "rush" | "offpeak" | "combined"
  selectedDestination,  \* All or a destination id
  viewMode,             \* "individual" | "comparison"
  displayMode,          \* "weekly" | "per-trip"
  isLoading,            \* TrafficHeatmap: load in progress
  isAddingNew,          \* DestinationManager: add form shown
  isGeocoding,          \* DestinationManager: geocoding call in progress
  geocodingError,       \* DestinationManager: error message or NoError
  newDestination,       \* DestinationManager: fields of the add form
  editingDestination,   \* DestinationManager: NoEdit or {id, field, value}
  geo,                  \* the geocoding call in flight and the closure awaiting it
  clock,                \* Date.now(), the source of destination ids
  load,                 \* the loadAllData call in progress and the request it awaits
  addresses             \* data of the grid query; <<>> while it has none

\* ------------------------------------------------------------- aggregation
\* index of the first destination with this id, 0 when there is none
\* (destinations.find(d => d.id === id))
FindDestIdx(dests, id) ==
  IF \E i \in DOMAIN dests : dests[i].id = id
  THEN CHOOSE i \in DOMAIN dests :
         dests[i].id = id /\ \A j \in DOMAIN dests : dests[j].id = id => i <= j
  ELSE 0

\* index of the first sample set with this destinationId, 0 when none
FindSetIdx(timeData, id) ==
  IF \E i \in DOMAIN timeData : timeData[i].destinationId = id
  THEN CHOOSE i \in DOMAIN timeData :
         timeData[i].destinationId = id
         /\ \A j \in DOMAIN timeData : timeData[j].destinationId = id => i <= j
  ELSE 0

\* index of the first sample of this origin, 0 when none
\* (results.find(r => r.origin === origin))
FindResultIdx(results, origin) ==
  IF \E i \in DOMAIN results : results[i].origin = origin
  THEN CHOOSE i \in DOMAIN results :
         results[i].origin = origin
         /\ \A j \in DOMAIN results : results[j].origin = origin => i <= j
  ELSE 0

\* index of the first OK sample of this origin, 0 when none
FindOkResultIdx(results, origin) ==
  IF \E i \in DOMAIN results : results[i].origin = origin /\ results[i].status = "OK"
  THEN CHOOSE i \in DOMAIN results :
         results[i].origin = origin /\ results[i].status = "OK"
         /\ \A j \in DOMAIN results :
              (results[j].origin = origin /\ results[j].status = "OK") => i <= j
  ELSE 0

\* the trip count a destination's samples of one period are weighted by
TripCountOffpeakOnly(destination, isRush) == destination.offpeakTrips

TripCount(destination, isRush) ==
  IF isRush THEN destination.rushTrips ELSE destination.offpeakTrips

\* originMap.get / originMap.set: add to the entry of origin, or append one
MapPutNoWeight(m, origin, time, weight) ==
  IF \E i \in DOMAIN m : m[i].origin = origin
  THEN [i \in DOMAIN m |->
          IF m[i].origin = origin
          THEN [m[i] EXCEPT !.totalTime = FAdd(@, time)]
          ELSE m[i]]
  ELSE Append(m, [origin |-> origin, totalTime |-> time, totalWeight |-> weight])

MapPut(m, origin, time, weight) ==
  IF \E i \in DOMAIN m : m[i].origin = origin
  THEN [i \in DOMAIN m |->
          IF m[i].origin = origin
          THEN [m[i] EXCEPT !.totalTime = FAdd(@, time), !.totalWeight = @ + weight]
          ELSE m[i]]
  ELSE Append(m, [origin |-> origin, totalTime |-> time, totalWeight |-> weight])

\* destData.results.forEach of the weighted branches
RECURSIVE WeightedResultsLoop(_, _, _)
WeightedResultsLoop(m, results, tripCount) ==
  IF results = <<>> THEN m
  ELSE LET result == Head(results)
       IN  WeightedResultsLoop(
             IF result.status # "OK" THEN m
             ELSE MapPut(m, result.origin,
                         FMul(result.duration, FInt(tripCount)), tripCount),
             Tail(results), tripCount)

\* timeData.forEach of the weighted branches
RECURSIVE WeightedDestLoop(_, _, _, _)
WeightedDestLoop(m, timeData, dests, isRush) ==
  IF timeData = <<>> THEN m
  ELSE LET destData == Head(timeData)
           idx == FindDestIdx(dests, destData.destinationId)
       IN  WeightedDestLoop(
             IF idx = 0 THEN m
             ELSE WeightedResultsLoop(m, destData.results,
                                      TripCount(dests[idx], isRush)),
             Tail(timeData), dests, isRush)

\* originMap.forEach of the weighted branches: one point per entry whose
\* origin is found in firstResults; skipZero is the totalTrips === 0 guard
RECURSIVE WeightedPoints(_, _, _)
WeightedPoints(m, firstResults, skipZero) ==
  IF m = <<>> THEN <<>>
  ELSE LET data == Head(m)
           rest == WeightedPoints(Tail(m), firstResults, skipZero)
           k == FindResultIdx(firstResults, data.origin)
       IN  IF skipZero /\ data.totalWeight = 0 THEN rest
           ELSE IF k = 0 THEN rest
           ELSE << [origin |-> firstResults[k].origin,
                    status |-> firstResults[k].status,
                    duration |-> JsDiv(data.totalTime, data.totalWeight)] >>
                \o rest

\* rushData[0]?.results
FirstResults(timeData) == IF timeData = <<>> THEN <<>> ELSE timeData[1].results

\* a stored sample as a point (its duration as a number)
AsPoint(r) == [origin |-> r.origin, status |-> r.status, duration |-> r.duration]

AsPoints(results) == [i \in DOMAIN results |-> AsPoint(results[i])]

getCombinedDataOf(td, dests, selDest) ==
  LET rushData == td.rush
      offpeakData == td.offpeak
  IN
  IF rushData = <<>> \/ offpeakData = <<>> THEN <<>>
  ELSE IF selDest = All
  THEN LET m1 == WeightedDestLoop(<<>>, rushData, dests, TRUE)
           m2 == WeightedDestLoop(m1, offpeakData, dests, FALSE)
       IN  WeightedPoints(m2, FirstResults(rushData), TRUE)
  ELSE LET ri == FindSetIdx(rushData, selDest)
           oi == FindSetIdx(offpeakData, selDest)
           di == FindDestIdx(dests, selDest)
       IN  IF ri = 0 \/ oi = 0 THEN <<>>
           ELSE IF di = 0 THEN <<>>
           ELSE LET m1 == WeightedResultsLoop(<<>>, rushData[ri].results,
                                              dests[di].rushTrips)
                    m2 == WeightedResultsLoop(m1, offpeakData[oi].results,
                                              dests[di].offpeakTrips)
                IN  WeightedPoints(m2, rushData[ri].results, TRUE)

\* originMap.set / push of the comparison branch: collect a duration under
\* the rush or the off-peak list of its origin
TimesPut(m, origin, duration, isRush) ==
  IF \E i \in DOMAIN m : m[i].origin = origin
  THEN [i \in DOMAIN m |->
          IF m[i].origin = origin
          THEN (IF isRush
                THEN [m[i] EXCEPT !.rushTimes = Append(@, duration)]
                ELSE [m[i] EXCEPT !.offpeakTimes = Append(@, duration)])
          ELSE m[i]]
  ELSE Append(m, [origin |-> origin,
                  rushTimes |-> IF isRush THEN <<duration>> ELSE <<>>,
                  offpeakTimes |-> IF isRush THEN <<>> ELSE <<duration>>])

\* destData.results.forEach of the comparison branch
RECURSIVE TimesResultsLoop(_, _, _)
TimesResultsLoop(m, results, isRush) ==
  IF results = <<>> THEN m
  ELSE LET result == Head(results)
       IN  TimesResultsLoop(
             IF result.status # "OK" THEN m
             ELSE TimesPut(m, result.origin, result.duration, isRush),
             Tail(results), isRush)

\* timeData.forEach of the comparison branch
RECURSIVE TimesDestLoop(_, _, _, _)
TimesDestLoop(m, timeData, dests, isRush) ==
  IF timeData = <<>> THEN m
  ELSE LET destData == Head(timeData)
           idx == FindDestIdx(dests, destData.destinationId)
       IN  TimesDestLoop(
             IF idx = 0 THEN m ELSE TimesResultsLoop(m, destData.results, isRush),
             Tail(timeData), dests, isRush)

\* the test a traffic delay must pass to be reported
DelayReportedAlways(delay) == TRUE

DelayReported(delay) == GtZero(delay)

\* originMap.forEach of the comparison branch
RECURSIVE ComparisonPoints(_, _)
ComparisonPoints(m, firstResults) ==
  IF m = <<>> THEN <<>>
  ELSE LET data == Head(m)
           rest == ComparisonPoints(Tail(m), firstResults)
       IN  IF data.rushTimes = <<>> \/ data.offpeakTimes = <<>> THEN rest
           ELSE LET avgRushTime == JsDiv(SumSeq(data.rushTimes), Len(data.rushTimes))
                    avgOffpeakTime ==
                      JsDiv(SumSeq(data.offpeakTimes), Len(data.offpeakTimes))
                    trafficDelayPerTrip == FSub(avgRushTime, avgOffpeakTime)
                    k == FindResultIdx(firstResults, data.origin)
                IN  IF k # 0 /\ DelayReported(trafficDelayPerTrip)
                    THEN << [origin |-> firstResults[k].origin,
                             status |-> firstResults[k].status,
                             duration |-> trafficDelayPerTrip] >> \o rest
                    ELSE rest

\* rushDestData.results.forEach of the single-destination comparison
RECURSIVE SingleComparisonPoints(_, _)
SingleComparisonPoints(rushResults, offpeakResults) ==
  IF rushResults = <<>> THEN <<>>
  ELSE LET rushResult == Head(rushResults)
           rest == SingleComparisonPoints(Tail(rushResults), offpeakResults)
           k == FindOkResultIdx(offpeakResults, rushResult.origin)
       IN  IF rushResult.status # "OK" THEN rest
           ELSE IF k = 0 THEN rest
           ELSE LET trafficDelay ==
                      FSub(rushResult.duration, offpeakResults[k].duration)
                IN  IF DelayReported(trafficDelay)
                    THEN << [origin |-> rushResult.origin,
                             status |-> rushResult.status,
                             duration |-> trafficDelay] >> \o rest
                    ELSE rest

\* whether the combined time period is answered by getCombinedData before
\* the view mode is looked at (the first statement of getCurrentData)
CombinedShortCircuit(selTime, vMode) == selTime = "combined"

getCurrentDataOf(td, dests, selTime, selDest, vMode) ==
  IF CombinedShortCircuit(selTime, vMode) THEN getCombinedDataOf(td, dests, selDest)
  ELSE
  LET currentTimeData == IF selTime = "rush" THEN td.rush ELSE td.offpeak
  IN
  IF vMode = "individual"
  THEN IF selDest = All
       THEN WeightedPoints(
              WeightedDestLoop(<<>>, currentTimeData, dests, selTime = "rush"),
              FirstResults(currentTimeData), FALSE)
       ELSE LET i == FindSetIdx(currentTimeData, selDest)
            IN  IF i = 0 THEN <<>> ELSE AsPoints(currentTimeData[i].results)
  ELSE \* comparison
  LET rushData == td.rush
      offpeakData == td.offpeak
  IN
  IF rushData = <<>> \/ offpeakData = <<>> THEN <<>>
  ELSE IF selDest = All
  THEN LET m1 == TimesDestLoop(<<>>, rushData, dests, TRUE)
           m2 == TimesDestLoop(m1, offpeakData, dests, FALSE)
       IN  ComparisonPoints(m2, FirstResults(rushData))
  ELSE LET ri == FindSetIdx(rushData, selDest)
           oi == FindSetIdx(offpeakData, selDest)
           di == FindDestIdx(dests, selDest)
       IN  IF ri = 0 \/ oi = 0 THEN <<>>
           ELSE IF di = 0 THEN <<>>
           ELSE IF dests[di].rushTrips = 0 THEN <<>>
           ELSE SingleComparisonPoints(rushData[ri].results, offpeakData[oi].results)

getCombinedData == getCombinedDataOf(travelData, destinations, selectedDestination)

getCurrentData ==
  getCurrentDataOf(travelData, destinations, selectedTime, selectedDestination, viewMode)

\* the points the legend and the map accept
\* (status === "OK" && duration > 0)
ValidData(data) ==
  SelectSeq(data, LAMBDA point : point.status = "OK" /\ GtZero(point.duration))

viewVars == << selectedTime, selectedDestination, viewMode, displayMode >>

mgrVars == << isAddingNew, isGeocoding, geocodingError, newDestination,
              editingDestination, geo, clock >>

loadVars == << isLoading, load, addresses >>

vars == << destinations, travelData, viewVars, loadVars, mgrVars >>

\* ------------------------------------------------------------ view actions
\* "Time Driving" / "Time Sitting in Traffic" buttons
setViewMode(v) ==
  /\ viewMode' = v
  /\ UNCHANGED << destinations, travelData, selectedTime, selectedDestination,
                  displayMode, loadVars, mgrVars >>

\* time-period buttons, rendered only in individual view
setSelectedTime(t) ==
  /\ viewMode = "individual"
  /\ selectedTime' = t
  /\ UNCHANGED << destinations, travelData, selectedDestination, viewMode,
                  displayMode, loadVars, mgrVars >>

\* "Per Trip" / "Weekly" buttons
setDisplayMode(m) ==
  /\ displayMode' = m
  /\ UNCHANGED << destinations, travelData, selectedTime, selectedDestination,
                  viewMode, loadVars, mgrVars >>

\* destination selector, rendered only with more than one destination; its
\* options are All and the ids of the current destinations
setSelectedDestination(x) ==
  /\ Len(destinations) > 1
  /\ x = All \/ \E i \in DOMAIN destinations : destinations[i].id = x
  /\ selectedDestination' = x
  /\ UNCHANGED << destinations, travelData, selectedTime, viewMode,
                  displayMode, loadVars, mgrVars >>

\* a removal that also purges the removed destination's sample sets
removeDestinationPurging(id) ==
  /\ \E i \in DOMAIN destinations : destinations[i].id = id
  /\ destinations' = SelectSeq(destinations, LAMBDA dest : dest.id # id)
  /\ travelData' =
       [rush |-> SelectSeq(travelData.rush, LAMBDA set : set.destinationId # id),
        offpeak |-> SelectSeq(travelData.offpeak, LAMBDA set : set.destinationId # id)]
  /\ UNCHANGED << viewVars, loadVars, mgrVars >>

\* destinations.filter(dest => dest.id !== id)
removeDestination(id) ==
  /\ \E i \in DOMAIN destinations : destinations[i].id = id
  /\ destinations' = SelectSeq(destinations, LAMBDA dest : dest.id # id)
  /\ UNCHANGED << travelData, viewVars, loadVars, mgrVars >>

\* ------------------------------------------------------------- geocoder
\* Address strings: the empty string, the text a user types for a place,
\* and the canonical address the geocoder returns for that place.
EmptyAddress == << "empty", 0 >>
Text(k) == << "text", k >>
Formatted(k) == << "formatted", k >>

Places == 1..NumPlaces

\* what is typed into an address field
TypedAddresses == {EmptyAddress} \cup { Text(k) : k \in Places }

\* trip counts typed into a trip-count field
TypedTrips == 0..MaxTyped

\* the geocoder finds nothing for the empty string
Geocodable(a) == a # EmptyAddress

\* geocodeAddress on success: first result's location and formatted_address
GeocodeResult(a) ==
  [formatted_address |-> Formatted(a[2]), lat |-> a[2], lng |-> -a[2]]

\* the place the destination with this id was added for (aggregation inputs)
PlaceOfId(id) == ((id - 1) % NumPlaces) + 1

\* ------------------------------------------------- DestinationManager state
NoError == "null"
NoEdit == [id |-> 0, field |-> "none", value |-> EmptyAddress]
NoCall == [kind |-> "none"]
EmptyForm == [name |-> "", address |-> EmptyAddress, rushTrips |-> 1, offpeakTrips |-> 1]

\* -------------------------------------------- DestinationManager actions
\* "Add Destination" header button: setIsAddingNew(true)
openAddForm ==
  /\ ~isAddingNew
  /\ isAddingNew' = TRUE
  /\ UNCHANGED << destinations, travelData, viewVars, loadVars, isGeocoding,
                  geocodingError, newDestination, editingDestination, geo, clock >>

\* the inputs of the add form, disabled while geocoding
setNewDestination(field, value) ==
  /\ isAddingNew /\ ~isGeocoding
  /\ newDestination' = [newDestination EXCEPT ![field] = value]
  /\ UNCHANGED << destinations, travelData, viewVars, loadVars, isAddingNew,
                  isGeocoding, geocodingError, editingDestination, geo, clock >>

\* "Cancel" of the add form
cancelAdd ==
  /\ isAddingNew /\ ~isGeocoding
  /\ isAddingNew' = FALSE
  /\ newDestination' = EmptyForm
  /\ geocodingError' = NoError
  /\ UNCHANGED << destinations, travelData, viewVars, loadVars, isGeocoding,
                  editingDestination, geo, clock >>

\* addDestination up to its await: the geocoding call is issued; the
\* closure keeps the destinations and the form of the render it ran in
addDestination ==
  /\ isAddingNew /\ ~isGeocoding
  /\ newDestination.name # "" /\ newDestination.address # EmptyAddress
  /\ clock < MaxDest
  /\ isGeocoding' = TRUE
  /\ geocodingError' = NoError
  /\ geo' = [kind |-> "add", address |-> newDestination.address,
             destinations |-> destinations, newDestination |-> newDestination]
  /\ UNCHANGED << destinations, travelData, viewVars, loadVars, isAddingNew,
                  newDestination, editingDestination, clock >>

\* addDestination after a successful geocode
addDestinationResolved ==
  /\ geo.kind = "add" /\ Geocodable(geo.address)
  /\ LET geocodeResult == GeocodeResult(geo.address)
         destination == [id |-> clock + 1,
                         name |-> geo.newDestination.name,
                         address |-> geocodeResult.formatted_address,
                         lat |-> geocodeResult.lat,
                         lng |-> geocodeResult.lng,
                         rushTrips |-> geo.newDestination.rushTrips,
                         offpeakTrips |-> geo.newDestination.offpeakTrips]
     IN  destinations' = Append(geo.destinations, destination)
  /\ clock' = clock + 1
  /\ newDestination' = EmptyForm
  /\ isAddingNew' = FALSE
  /\ isGeocoding' = FALSE
  /\ geo' = NoCall
  /\ UNCHANGED << travelData, viewVars, loadVars, geocodingError,
                  editingDestination >>

\* the ways the geocoding call rejects: with an Error carrying its message
\* (the server's, or an empty one) or with a value that is not an Error
GeocodeRejections ==
  { [isError |-> TRUE,
     message |-> "Failed to geocode address: Geocoding failed: ZERO_RESULTS"],
    [isError |-> TRUE, message |-> ""],
    [isError |-> FALSE, message |-> ""] }

\* error instanceof Error ? error.message : "Failed to geocode address"
errorMessage(error) ==
  IF error.isError THEN error.message ELSE "Failed to geocode address"

\* a failed add that inserts the destination as typed, without coordinates
addDestinationRejectedPartial(error) ==
  /\ geo.kind = "add"
  /\ destinations' =
       Append(geo.destinations,
              [id |-> clock + 1, name |-> geo.newDestination.name,
               address |-> geo.address, lat |-> 0, lng |-> 0,
               rushTrips |-> geo.newDestination.rushTrips,
               offpeakTrips |-> geo.newDestination.offpeakTrips])
  /\ geocodingError' = errorMessage(error)
  /\ isGeocoding' = FALSE
  /\ geo' = NoCall
  /\ UNCHANGED << travelData, viewVars, loadVars, isAddingNew,
                  newDestination, editingDestination, clock >>

\* addDestination after a failed geocode (catch and finally)
addDestinationRejected(error) ==
  /\ geo.kind = "add"
  /\ geocodingError' = errorMessage(error)
  /\ isGeocoding' = FALSE
  /\ geo' = NoCall
  /\ UNCHANGED << destinations, travelData, viewVars, loadVars, isAddingNew,
                  newDestination, editingDestination, clock >>

\* focus of a destination's address input (disabled while geocoding)
startEditing(id) ==
  /\ ~isGeocoding
  /\ \E i \in DOMAIN destinations :
       /\ destinations[i].id = id
       /\ editingDestination' =
            [id |-> id, field |-> "address", value |-> destinations[i].address]
  /\ UNCHANGED << destinations, travelData, viewVars, loadVars, isAddingNew,
                  isGeocoding, geocodingError, newDestination, geo, clock >>

\* typing in the focused address input
updateEditingValue(value) ==
  /\ ~isGeocoding
  /\ editingDestination # NoEdit
  /\ editingDestination' = [editingDestination EXCEPT !.value = value]
  /\ UNCHANGED << destinations, travelData, viewVars, loadVars, isAddingNew,
                  isGeocoding, geocodingError, newDestination, geo, clock >>

\* destinations.map(dest => dest.id === id ? {...dest, ...updates} : dest)
\* for an update of the address alone
MergeAddress(dests, id, address) ==
  [i \in DOMAIN dests |->
     IF dests[i].id = id THEN [dests[i] EXCEPT !.address = address] ELSE dests[i]]

\* the same for an update of address, lat and lng after a geocode
MergeGeocoded(dests, id, geocodeResult) ==
  [i \in DOMAIN dests |->
     IF dests[i].id = id
     THEN [dests[i] EXCEPT !.address = geocodeResult.formatted_address,
                           !.lat = geocodeResult.lat,
                           !.lng = geocodeResult.lng]
     ELSE dests[i]]

\* whether updateDestination geocodes: the address is being updated
NeedsGeocode(dests, id, address) ==
  /\ address # EmptyAddress
  /\ LET i == FindDestIdx(dests, id)
     IN  i = 0 \/ address # dests[i].address

\* blur of the address input: commitEdit, and the updateDestination it
\* calls, up to the await of the geocoding call or to the end
commitEdit ==
  /\ ~isGeocoding
  /\ editingDestination # NoEdit
  /\ LET id == editingDestination.id
         value == editingDestination.value
         i == FindDestIdx(destinations, id)
     IN  IF i = 0 \/ destinations[i].address = value
         THEN /\ editingDestination' = NoEdit
              /\ UNCHANGED << destinations, isGeocoding, geo >>
         ELSE IF NeedsGeocode(destinations, id, value)
         THEN /\ isGeocoding' = TRUE
              /\ geo' = [kind |-> "update", id |-> id, address |-> value,
                         destinations |-> destinations]
              /\ UNCHANGED << destinations, editingDestination >>
         ELSE /\ destinations' = MergeAddress(destinations, id, value)
              /\ editingDestination' = NoEdit
              /\ UNCHANGED << isGeocoding, geo >>
  /\ UNCHANGED << travelData, viewVars, loadVars, isAddingNew, geocodingError,
                  newDestination, clock >>

\* Escape in the focused address input: cancelEdit() clears the edit, then
\* currentTarget.blur() runs onBlur, whose commitEdit still holds the edit
\* of this render: the value is committed as on a blur, and the edit is
\* cleared at once
cancelEdit ==
  /\ ~isGeocoding
  /\ editingDestination # NoEdit
  /\ editingDestination' = NoEdit
  /\ LET id == editingDestination.id
         value == editingDestination.value
         i == FindDestIdx(destinations, id)
     IN  IF i = 0 \/ destinations[i].address = value
         THEN UNCHANGED << destinations, isGeocoding, geo >>
         ELSE IF NeedsGeocode(destinations, id, value)
         THEN /\ isGeocoding' = TRUE
              /\ geo' = [kind |-> "update", id |-> id, address |-> value,
                         destinations |-> destinations]
              /\ UNCHANGED destinations
         ELSE /\ destinations' = MergeAddress(destinations, id, value)
              /\ UNCHANGED << isGeocoding, geo >>
  /\ UNCHANGED << travelData, viewVars, loadVars, isAddingNew, geocodingError,
                  newDestination, clock >>

\* updateDestination after a successful geocode, then the end of commitEdit
updateDestinationResolved ==
  /\ geo.kind = "update" /\ Geocodable(geo.address)
  /\ destinations' = MergeGeocoded(geo.destinations, geo.id, GeocodeResult(geo.address))
  /\ isGeocoding' = FALSE
  /\ editingDestination' = NoEdit
  /\ geo' = NoCall
  /\ UNCHANGED << travelData, viewVars, loadVars, isAddingNew, geocodingError,
                  newDestination, clock >>

\* a failed address edit that stores the typed address all the same
updateDestinationRejectedMerging ==
  /\ geo.kind = "update"
  /\ destinations' = MergeAddress(geo.destinations, geo.id, geo.address)
  /\ isGeocoding' = FALSE
  /\ editingDestination' = NoEdit
  /\ geo' = NoCall
  /\ UNCHANGED << travelData, viewVars, loadVars, isAddingNew,
                  geocodingError, newDestination, clock >>

\* updateDestination after a failed geocode: no update
updateDestinationRejected ==
  /\ geo.kind = "update"
  /\ isGeocoding' = FALSE
  /\ editingDestination' = NoEdit
  /\ geo' = NoCall
  /\ UNCHANGED << destinations, travelData, viewVars, loadVars, isAddingNew,
                  geocodingError, newDestination, clock >>

\* the name input of a destination: updateDestination(id, {name: value})
updateName(id, value) ==
  /\ \E i \in DOMAIN destinations : destinations[i].id = id
  /\ destinations' =
       [i \in DOMAIN destinations |->
          IF destinations[i].id = id
          THEN [destinations[i] EXCEPT !.name = value]
          ELSE destinations[i]]
  /\ UNCHANGED << travelData, viewVars, loadVars, mgrVars >>

\* the trip-count inputs of a destination: updateDestination(id, {field: n})
updateTrips(id, field, n) ==
  /\ \E i \in DOMAIN destinations : destinations[i].id = id
  /\ destinations' =
       [i \in DOMAIN destinations |->
          IF destinations[i].id = id
          THEN [destinations[i] EXCEPT ![field] = n]
          ELSE destinations[i]]
  /\ UNCHANGED << travelData, viewVars, loadVars, mgrVars >>

\* ------------------------------------------------------ loading the store
\* api.traffic.getSanFranciscoGrid.useQuery() delivers its data
gridQueryResolved ==
  /\ addresses = <<>>
  /\ addresses' = getSanFranciscoGrid
  /\ UNCHANGED << destinations, travelData, viewVars, isLoading, load, mgrVars >>

\* no loadAllData call in progress
Idle == [pc |-> "idle"]

\* the destinations of a request as the input schema of the procedure
\* keeps them: id, name, address, lat and lng, and the default weight
RequestDestinations(dests) ==
  [i \in DOMAIN dests |->
     [id |-> dests[i].id, name |-> dests[i].name, address |-> dests[i].address,
      lat |-> dests[i].lat, lng |-> dests[i].lng, weight |-> 1]]

\* a load trigger that is not disabled while a load is in progress
loadAllDataAnyTime ==
  /\ Len(destinations) > 0
  /\ Len(addresses) > 0
  /\ isLoading' = TRUE
  /\ load' = [pc |-> "rush", destinations |-> RequestDestinations(destinations),
              i |-> 1, allResults |-> <<>>]
  /\ UNCHANGED << addresses, destinations, travelData, viewVars, mgrVars >>

\* "Load Traffic Data" button (disabled while loading or without
\* destinations): loadAllData calls fetchTravelTimes("rush"), which sets
\* the loading flag and sends the request.  Both fetches of the call send
\* the destinations of the render the click happened in.
loadAllData ==
  /\ ~isLoading /\ Len(destinations) > 0
  /\ Len(addresses) > 0
  /\ isLoading' = TRUE
  /\ load' = [pc |-> "rush", destinations |-> RequestDestinations(destinations),
              i |-> 1, allResults |-> <<>>]
  /\ UNCHANGED << addresses, destinations, travelData, viewVars, mgrVars >>

\* the ways one provider call fails hard: a non-2xx response, an empty
\* body, a body JSON.parse throws on
HardFailures == {"non2xx", "empty", "malformed"}

\* a loop that a failing provider call ends
providerFailsAborting(kind) ==
  /\ load.pc \in {"rush", "offpeak"}
  /\ load.i <= Len(load.destinations)
  /\ kind \in HardFailures
  /\ load' = [load EXCEPT !.i = Len(load.destinations) + 1]
  /\ UNCHANGED << addresses, destinations, travelData, viewVars, isLoading, mgrVars >>

\* getTravelTimesMultiDestination, one turn of its loop: the provider call
\* for the next destination fails hard and the destination is skipped
providerFails(kind) ==
  /\ load.pc \in {"rush", "offpeak"}
  /\ load.i <= Len(load.destinations)
  /\ kind \in HardFailures
  /\ load' = [load EXCEPT !.i = @ + 1]
  /\ UNCHANGED << addresses, destinations, travelData, viewVars, isLoading, mgrVars >>

\* one turn of the loop: the provider answers and the destination's sample
\* set is appended
providerAnswers(results) ==
  /\ load.pc \in {"rush", "offpeak"}
  /\ load.i <= Len(load.destinations)
  /\ load' = [load EXCEPT
                !.i = @ + 1,
                !.allResults =
                   Append(@, [destinationId |-> load.destinations[load.i].id,
                              results |-> results])]
  /\ UNCHANGED << addresses, destinations, travelData, viewVars, isLoading, mgrVars >>

\* what fetchTravelTimes stores when the request returns
Stored(prev, response) == response

\* a rush delivery that does not wait for the provider calls still to be
\* made before the off-peak fetch is started
fetchReturnsUnawaited ==
  /\ load.pc \in {"rush", "offpeak"}
  /\ load.pc = "offpeak" => load.i > Len(load.destinations)
  /\ travelData' =
       IF load.pc = "rush"
       THEN [travelData EXCEPT !.rush = Stored(@, load.allResults)]
       ELSE [travelData EXCEPT !.offpeak = Stored(@, load.allResults)]
  /\ isLoading' = (load.pc = "rush")
  /\ load' = IF load.pc = "rush"
             THEN [load EXCEPT !.pc = "offpeak", !.i = 1, !.allResults = <<>>]
             ELSE Idle
  /\ UNCHANGED << addresses, destinations, viewVars, mgrVars >>

\* the request returns { destinations: allResults }: fetchTravelTimes
\* replaces the slot of its period and clears the loading flag.  After the
\* rush fetch loadAllData resumes in the same task and calls
\* fetchTravelTimes("offpeak"), which sets the flag again and sends the
\* off-peak request; the component renders after the task, with the flag
\* set.  After the off-peak fetch the load is over.
fetchReturns ==
  /\ load.pc \in {"rush", "offpeak"}
  /\ load.i > Len(load.destinations)
  /\ travelData' =
       IF load.pc = "rush"
       THEN [travelData EXCEPT !.rush = Stored(@, load.allResults)]
       ELSE [travelData EXCEPT !.offpeak = Stored(@, load.allResults)]
  /\ isLoading' = (load.pc = "rush")
  /\ load' = IF load.pc = "rush"
             THEN [load EXCEPT !.pc = "offpeak", !.i = 1, !.allResults = <<>>]
             ELSE Idle
  /\ UNCHANGED << addresses, destinations, viewVars, mgrVars >>

\* the request itself throws (the call to the application server fails):
\* catch logs, finally clears the loading flag, the store is not written;
\* after the rush fetch the off-peak fetch is started in the same task
fetchThrows ==
  /\ load.pc \in {"rush", "offpeak"}
  /\ isLoading' = (load.pc = "rush")
  /\ load' = IF load.pc = "rush"
             THEN [load EXCEPT !.pc = "offpeak", !.i = 1, !.allResults = <<>>]
             ELSE Idle
  /\ UNCHANGED << addresses, destinations, travelData, viewVars, mgrVars >>

\* --------------------------------------------- inputs of the aggregation
\* the members of a set of integers in increasing order
RECURSIVE SortedSeq(_)
SortedSeq(S) ==
  IF S = {} THEN <<>>
  ELSE LET m == CHOOSE x \in S : \A y \in S : x <= y
       IN  <<m>> \o SortedSeq(S \ {m})

\* destination lists: ids are handed out in increasing order and the list
\* is only appended to, filtered and mapped, so it is increasing in id
DestLists ==
  UNION { LET ord == SortedSeq(S)
          IN  { [i \in 1..Len(ord) |->
                   [id |-> ord[i], name |-> "Office",
                    address |-> GeocodeResult(Text(PlaceOfId(ord[i]))).formatted_address,
                    lat |-> GeocodeResult(Text(PlaceOfId(ord[i]))).lat,
                    lng |-> GeocodeResult(Text(PlaceOfId(ord[i]))).lng,
                    rushTrips |-> f[ord[i]][1], offpeakTrips |-> f[ord[i]][2]]]
                : f \in [S -> Trips \X Trips] }
          : S \in SUBSET DestIds }

\* the samples a provider response can hold for one origin
SamplesOf(o) ==
  { [origin |-> o, status |-> "FAILED", duration |-> FZero] }
  \cup { [origin |-> o, status |-> "OK", duration |-> FInt(d)] : d \in Durations }

\* result lists: at most one sample per origin, in grid order
ResultLists ==
  UNION { LET ord == SortedSeq(S)
          IN  { [i \in 1..Len(ord) |-> f[ord[i]]]
                : f \in { g \in [S -> UNION { SamplesOf(o) : o \in S }] :
                            \A o \in S : g[o].origin = o } }
          : S \in SUBSET Origins }

\* the sample sets one fetch can store: one per destination whose call
\* succeeded, in list order
TimeDatas ==
  UNION { LET ord == SortedSeq(S)
          IN  { [i \in 1..Len(ord) |->
                   [destinationId |-> ord[i], results |-> f[ord[i]]]]
                : f \in [S -> ResultLists] }
          : S \in SUBSET DestIds }

InitView ==
  /\ selectedTime = "combined"
  /\ selectedDestination = All
  /\ viewMode = "individual"
  /\ displayMode = "weekly"
  /\ isLoading = FALSE
  /\ load = Idle

InitManager ==
  /\ isAddingNew = FALSE
  /\ isGeocoding = FALSE
  /\ geocodingError = NoError
  /\ newDestination = EmptyForm
  /\ editingDestination = NoEdit
  /\ geo = NoCall
  /\ clock = 0

InitReduce ==
  /\ addresses = getSanFranciscoGrid
  /\ destinations \in DestLists
  /\ travelData \in [rush : TimeDatas, offpeak : TimeDatas]
  /\ InitView
  /\ InitManager

NextReduce ==
  \/ \E v \in {"individual", "comparison"} : setViewMode(v)
  \/ \E t \in {"rush", "offpeak", "combined"} : setSelectedTime(t)
  \/ \E x \in {All} \cup DestIds : setSelectedDestination(x)
  \/ \E id \in DestIds : removeDestination(id)

\* the aggregation over every store, destination list and view configuration
SpecReduce == InitReduce /\ [][NextReduce]_vars

\* Stores of three destinations, whose means are thirds: the durations the
\* provider reports here give sums that 3 does not divide.
DelayDurations == {100, 200}

DelayDestIds == 1..DelayDests

\* the first destination with and without rush trips, the others with one
DelayDestLists ==
  { [i \in DelayDestIds |->
       [id |-> i, name |-> "Office",
        address |-> GeocodeResult(Text(PlaceOfId(i))).formatted_address,
        lat |-> GeocodeResult(Text(PlaceOfId(i))).lat,
        lng |-> GeocodeResult(Text(PlaceOfId(i))).lng,
        rushTrips |-> IF i = 1 THEN t ELSE 1, offpeakTrips |-> 1]]
    : t \in {0, 1} }

\* the samples a provider response can hold for the origin
DelaySamples ==
  { [origin |-> 1, status |-> "FAILED", duration |-> FZero] }
  \cup { [origin |-> 1, status |-> "OK", duration |-> FInt(d)] : d \in DelayDurations }

\* the sample sets one fetch can store: one per destination whose call
\* succeeded, in list order
DelayTimeDatas ==
  UNION { LET ord == SortedSeq(S)
          IN  { [i \in 1..Len(ord) |->
                   [destinationId |-> ord[i], results |-> << f[ord[i]] >>]]
                : f \in [S -> DelaySamples] }
          : S \in SUBSET DelayDestIds }

InitDelay ==
  /\ addresses = getSanFranciscoGrid
  /\ destinations \in DelayDestLists
  /\ travelData \in [rush : DelayTimeDatas, offpeak : DelayTimeDatas]
  /\ InitView
  /\ InitManager

NextDelay ==
  \/ \E v \in {"individual", "comparison"} : setViewMode(v)
  \/ \E t \in {"rush", "offpeak", "combined"} : setSelectedTime(t)
  \/ \E x \in {All} \cup DelayDestIds : setSelectedDestination(x)
  \/ \E id \in DelayDestIds : removeDestination(id)

\* the aggregation over the stores of three destinations
SpecDelay == InitDelay /\ [][NextDelay]_vars

\* ------------------------------------------- reference values of the claims
\* These are stated over the store and the destination list directly, as
\* sums over sets of sample positions, and not by the loops of the code.

RECURSIVE SumF(_, _)
SumF(f, S) ==
  IF S = {} THEN 0
  ELSE LET x == CHOOSE y \in S : TRUE IN f[x] + SumF(f, S \ {x})

Listed(id) == \E i \in DOMAIN destinations : destinations[i].id = id

DestOf(id) == destinations[CHOOSE i \in DOMAIN destinations : destinations[i].id = id]

PeriodTrips(dest, period) ==
  IF period = "rush" THEN dest.rushTrips ELSE dest.offpeakTrips

Slot(period) == IF period = "rush" THEN travelData.rush ELSE travelData.offpeak

\* positions <<i, j>> of the OK samples of origin o in the slot of a period
OkAt(period, o) ==
  UNION { { <<i, j>> : j \in { k \in DOMAIN Slot(period)[i].results :
                                 /\ Slot(period)[i].results[k].origin = o
                                 /\ Slot(period)[i].results[k].status = "OK" } }
          : i \in DOMAIN Slot(period) }

\* those of destinations in the list
OkListedAt(period, o) ==
  { p \in OkAt(period, o) : Listed(Slot(period)[p[1]].destinationId) }

\* those of one destination
OkOfDestAt(period, o, id) ==
  { p \in OkAt(period, o) : Slot(period)[p[1]].destinationId = id }

DurationAt(period, p) == Slot(period)[p[1]].results[p[2]].duration

TripsAt(period, p) == PeriodTrips(DestOf(Slot(period)[p[1]].destinationId), period)

\* sum of tripCount, and of duration x tripCount, over a set of positions
RefWeight(period, P) == SumF([p \in P |-> TripsAt(period, p)], P)

\* the sum of numbers over a set; the durations of the stores are whole
\* seconds, whose sums and products with trip counts no order of adding
\* rounds
RECURSIVE SumN(_, _)
SumN(f, S) ==
  IF S = {} THEN FZero
  ELSE LET x == CHOOSE y \in S : TRUE IN FAdd(f[x], SumN(f, S \ {x}))

RefTime(period, P) ==
  SumN([p \in P |-> FMul(DurationAt(period, p), FInt(TripsAt(period, p)))], P)

RefDurSum(period, P) == SumN([p \in P |-> DurationAt(period, p)], P)

\* a number is the quotient num / den of a number and an integer, den > 0
EqualsQuotient(x, num, den) == den > 0 /\ x = JsDiv(num, den)

Points == getCurrentData

OriginsOf(data) == { data[i].origin : i \in DOMAIN data }

IndividualAll == viewMode = "individual" /\ selectedDestination = All

\* the sample positions a combined or weighted point of origin o rests on
ContribAt(period, o) ==
  IF selectedDestination = All THEN OkListedAt(period, o)
  ELSE { p \in OkOfDestAt(period, o, selectedDestination) :
           Listed(selectedDestination) }

\* --------------------------------------------------------------- claims

\* C1: the aggregation never divides by a zero total weight: in individual
\* view over all destinations (rush, offpeak or combined) an origin whose
\* contributing OK samples all have trip count 0 yields no output point, and
\* no output duration is the 0/0 value.
C1_NoZeroWeightDivision ==
  /\ \A i \in DOMAIN Points : ~IsNaN(Points[i].duration)
  /\ IndividualAll =>
       \A o \in OriginsOf(Points) :
         IF selectedTime = "combined"
         THEN RefWeight("rush", OkListedAt("rush", o))
              + RefWeight("offpeak", OkListedAt("offpeak", o)) > 0
         ELSE RefWeight(selectedTime, OkListedAt(selectedTime, o)) > 0

\* C2: in every view configuration an origin whose only samples in the
\* working set are FAILED does not appear in the aggregation output.
C2_FailedOnlyOriginAbsent ==
  \A o \in OriginsOf(Points) :
    IF selectedTime = "combined" \/ viewMode = "comparison"
    THEN OkAt("rush", o) \cup OkAt("offpeak", o) # {}
    ELSE OkAt(selectedTime, o) # {}

\* C3: in comparison view, for every value of the time-period selector,
\* each output duration is the traffic delay of its origin: the rush
\* duration minus the off-peak duration (of the selected destination, or of
\* the per-period means over the listed destinations when the filter is All).
C3_ComparisonIsDelay ==
  viewMode = "comparison" =>
    \A i \in DOMAIN Points :
      LET o == Points[i].origin
          R == ContribAt("rush", o)
          O == ContribAt("offpeak", o)
          nR == Cardinality(R)
          nO == Cardinality(O)
      IN  /\ nR > 0 /\ nO > 0
          /\ Points[i].duration =
               FSub(JsDiv(RefDurSum("rush", R), nR),
                    JsDiv(RefDurSum("offpeak", O), nO))

\* the store without the i-th sample set of a period
WithoutSet(td, period, i) ==
  LET drop(s) == [k \in 1..(Len(s) - 1) |-> IF k < i THEN s[k] ELSE s[k + 1]]
  IN  IF period = "rush" THEN [td EXCEPT !.rush = drop(@)]
      ELSE [td EXCEPT !.offpeak = drop(@)]

\* C4: a sample set whose destinationId matches no destination of the list
\* contributes nothing: the output equals the output computed with that set
\* absent from the store, also when the removed destination is still the
\* selected filter.
C4_OrphanSetContributesNothing ==
  \A period \in {"rush", "offpeak"} :
    \A i \in DOMAIN Slot(period) :
      ~Listed(Slot(period)[i].destinationId) =>
        getCurrentDataOf(WithoutSet(travelData, period, i), destinations,
                         selectedTime, selectedDestination, viewMode)
        = Points

\* an origin has an OK sample of a listed destination with positive weight
HasWeightedOk(period, o) ==
  \E p \in OkListedAt(period, o) : TripsAt(period, p) > 0

\* C6: with the filter All in individual view, every origin with at least
\* one OK sample of a listed destination with positive weight for the period
\* yields exactly one output point that the renderer accepts (status OK),
\* whichever sample set is first in the store.
C6_OnePointPerWeightedOrigin ==
  IndividualAll =>
    \A o \in Origins :
      (IF selectedTime = "combined"
       THEN /\ travelData.rush # <<>> /\ travelData.offpeak # <<>>
            /\ (HasWeightedOk("rush", o) \/ HasWeightedOk("offpeak", o))
       ELSE HasWeightedOk(selectedTime, o))
      => Cardinality({ i \in DOMAIN ValidData(Points) :
                         ValidData(Points)[i].origin = o }) = 1

C9_CombinedMean ==
  selectedTime = "combined" =>
    LET points == Points
    IN  /\ (travelData.rush = <<>> \/ travelData.offpeak = <<>>) => points = <<>>
        /\ \A i \in DOMAIN points :
             LET o == points[i].origin
                 R == ContribAt("rush", o)
                 O == ContribAt("offpeak", o)
                 w == RefWeight("rush", R) + RefWeight("offpeak", O)
                 t == FAdd(RefTime("rush", R), RefTime("offpeak", O))
             IN  w > 0 /\ EqualsQuotient(points[i].duration, t, w)

\* the claim's example: rushTrips 2 at 600 s and offpeakTrips 1 at 300 s
\* of one selected destination give 500 s
C9_Witness ==
  /\ selectedTime = "combined"
  /\ selectedDestination # All
  /\ Listed(selectedDestination)
  /\ DestOf(selectedDestination).rushTrips = 2
  /\ DestOf(selectedDestination).offpeakTrips = 1
  /\ \E i \in DOMAIN Points :
       /\ Points[i].duration = FInt(500)
       /\ \E p \in ContribAt("rush", Points[i].origin) : DurationAt("rush", p) = FInt(600)
       /\ \E p \in ContribAt("offpeak", Points[i].origin) :
            DurationAt("offpeak", p) = FInt(300)

\* the mean of the OK samples of a set of positions, as a number
RefMean(period, P) == JsDiv(RefDurSum(period, P), Cardinality(P))

\* an origin's rush-minus-off-peak delay is defined and positive
DelayPositive(o) ==
  LET R == ContribAt("rush", o)
      O == ContribAt("offpeak", o)
  IN  /\ R # {} /\ O # {}
      /\ GtZero(FSub(RefMean("rush", R), RefMean("offpeak", O)))

\* C10: in comparison output (time period rush or offpeak), for the filter
\* All and for a single destination, an origin whose delay is <= 0 or which
\* lacks an OK sample in either period is absent, and every duration in the
\* output is strictly positive.
C10_ComparisonPositive ==
  (viewMode = "comparison" /\ selectedTime \in {"rush", "offpeak"}) =>
    /\ \A o \in Origins : ~DelayPositive(o) => o \notin OriginsOf(Points)
    /\ \A i \in DOMAIN Points : GtZero(Points[i].duration)

\* the claim's case: an origin with OK samples of three destinations in
\* both periods, whose means are thirds that are not whole numbers and
\* whose rush mean does not exceed its off-peak mean, dropped from the output
C10_Witness ==
  /\ viewMode = "comparison" /\ selectedTime \in {"rush", "offpeak"}
  /\ selectedDestination = All
  /\ \E o \in Origins :
       LET R == ContribAt("rush", o)
           O == ContribAt("offpeak", o)
       IN  /\ Cardinality(R) = 3 /\ Cardinality(O) = 3
           /\ FFloor(RefMean("rush", R)) # RefMean("rush", R)
           /\ FFloor(RefMean("offpeak", O)) # RefMean("offpeak", O)
           /\ ~DelayPositive(o)
           /\ o \notin OriginsOf(Points)

\* --------------------------------------------------- destination manager
InitDest ==
  /\ addresses = <<>>
  /\ destinations = <<>>
  /\ travelData = [rush |-> <<>>, offpeak |-> <<>>]
  /\ InitView
  /\ InitManager

NextDest ==
  \/ openAddForm
  \/ \E n \in {"", "Office"} : setNewDestination("name", n)
  \/ \E a \in TypedAddresses : setNewDestination("address", a)
  \/ \E t \in TypedTrips : setNewDestination("rushTrips", t)
  \/ cancelAdd
  \/ addDestination
  \/ addDestinationResolved
  \/ \E error \in GeocodeRejections : addDestinationRejected(error)
  \/ \E id \in DestIds : startEditing(id)
  \/ \E a \in TypedAddresses : updateEditingValue(a)
  \/ cancelEdit
  \/ commitEdit
  \/ updateDestinationResolved
  \/ updateDestinationRejected
  \/ \E id \in DestIds, t \in TypedTrips : updateTrips(id, "rushTrips", t)
  \/ updateTrips(1, "offpeakTrips", 0)
  \/ updateName(1, "Home")
  \/ \E id \in DestIds : removeDestination(id)

\* the destination list under add, edit, trip-count and remove operations
SpecDest == InitDest /\ [][NextDest]_vars

\* C7: each destination's lat/lng are the coordinates the geocoder returned
\* for its current address: no add, address commit (an empty address
\* included), trip-count edit or remove changes an address without
\* replacing the coordinates by a successful geocode of the new address.
C7_CoordinatesOfAddress ==
  \A i \in DOMAIN destinations :
    \E a \in TypedAddresses :
      /\ Geocodable(a)
      /\ destinations[i].address = GeocodeResult(a).formatted_address
      /\ destinations[i].lat = GeocodeResult(a).lat
      /\ destinations[i].lng = GeocodeResult(a).lng

\* ------------------------------------------------------------ load machine
\* destination lists a load can start from (geocoded, one trip each way)
LoadDestLists ==
  { dl \in DestLists :
      \A i \in DOMAIN dl : dl[i].rushTrips = 1 /\ dl[i].offpeakTrips = 1 }

InitLoad ==
  /\ addresses = <<>>
  /\ destinations \in LoadDestLists
  /\ travelData = [rush |-> <<>>, offpeak |-> <<>>]
  /\ InitView
  /\ InitManager

NextLoad ==
  \/ gridQueryResolved
  \/ loadAllData
  \/ \E kind \in HardFailures : providerFails(kind)
  \/ \E results \in ResultLists : providerAnswers(results)
  \/ fetchReturns
  \/ fetchThrows
  \/ \E id \in DestIds : removeDestination(id)

\* loading the store, with destinations removed meanwhile
SpecLoad == InitLoad /\ [][NextLoad]_vars

\* C5: if the provider calls of a period fetch fail hard, the store slot of
\* that period keeps the data it held before the fetch; it is never
\* overwritten with an empty result.
C5_HardFailureKeepsStore ==
  [][ ( /\ load.pc \in {"rush", "offpeak"}
        /\ load.i > Len(load.destinations)
        /\ load.allResults = <<>>
        /\ load'.pc # load.pc )
      => travelData' = travelData ]_vars


\* ----------------------------------------------- zero-weight destinations
\* the other duration the provider can report
OtherDuration(d) == IF d = FInt(300) THEN FInt(600) ELSE FInt(300)

\* a slot with the durations of the OK samples of destination id replaced
WithOtherDurations(timeData, id) ==
  [i \in DOMAIN timeData |->
     IF timeData[i].destinationId # id THEN timeData[i]
     ELSE [timeData[i] EXCEPT !.results =
             [k \in DOMAIN @ |->
                IF @[k].status = "OK"
                THEN [@[k] EXCEPT !.duration = OtherDuration(@)]
                ELSE @[k]]]]

\* the stores that differ from the store only in sample durations of
\* destination id
StoreVariants(id) ==
  { [rush |-> IF "rush" \in P THEN WithOtherDurations(travelData.rush, id)
              ELSE travelData.rush,
     offpeak |-> IF "offpeak" \in P THEN WithOtherDurations(travelData.offpeak, id)
                 ELSE travelData.offpeak]
    : P \in SUBSET {"rush", "offpeak"} }

ZeroWeight(dest) == dest.rushTrips = 0 /\ dest.offpeakTrips = 0

\* C11: with the filter All a destination whose rushTrips and offpeakTrips
\* are both 0 has no influence on the output, in individual and in
\* comparison view and for every time period: a store that differs only in
\* that destination's sample durations gives the same output.
C11_ZeroWeightNoInfluence ==
  selectedDestination = All =>
    \A i \in DOMAIN destinations :
      ZeroWeight(destinations[i]) =>
        \A td \in StoreVariants(destinations[i].id) :
          getCurrentDataOf(td, destinations, selectedTime, All, viewMode) = Points

\* C12: in individual view with a single selected destination and time
\* period rush (resp. offpeak) the output is empty when that destination's
\* rushTrips (resp. offpeakTrips) is 0; in comparison view a selected
\* destination with rushTrips 0 gives an empty output.
C12_ZeroWeightSingleEmpty ==
  (selectedDestination # All /\ Listed(selectedDestination)) =>
    /\ ( /\ viewMode = "individual"
         /\ selectedTime \in {"rush", "offpeak"}
         /\ PeriodTrips(DestOf(selectedDestination), selectedTime) = 0 )
       => Points = <<>>
    /\ ( /\ viewMode = "comparison"
         /\ DestOf(selectedDestination).rushTrips = 0 )
       => Points = <<>>


\* ---------------------------------------------------------------- display
\* Math.min(...durations), Math.max(...durations) of a non-empty list (NaN
\* when a member is NaN) and the reduce sum, taken from the left
RECURSIVE MinDuration(_)
MinDuration(durations) ==
  IF Len(durations) = 1 THEN durations[1]
  ELSE LET m == MinDuration(Tail(durations))
       IN  IF IsNaN(m) \/ IsNaN(Head(durations)) THEN NaN
           ELSE IF FLess(m, Head(durations)) THEN m ELSE Head(durations)

RECURSIVE MaxDuration(_)
MaxDuration(durations) ==
  IF Len(durations) = 1 THEN durations[1]
  ELSE LET m == MaxDuration(Tail(durations))
       IN  IF IsNaN(m) \/ IsNaN(Head(durations)) THEN NaN
           ELSE IF FLess(Head(durations), m) THEN m ELSE Head(durations)

RECURSIVE SumDuration(_)
SumDuration(durations) ==
  IF durations = <<>> THEN FZero
  ELSE FAdd(SumDuration(SubSeq(durations, 1, Len(durations) - 1)),
            durations[Len(durations)])

\* the destinations the weekly figures are summed over
DestinationsForCalc(dests, selDest) ==
  IF selDest = All THEN dests ELSE SelectSeq(dests, LAMBDA d : d.id = selDest)

\* the trips of one destination that the weekly figures count
ApplicableTrips(dest, vMode, selTime) ==
  IF vMode = "comparison" THEN dest.rushTrips
  ELSE IF selTime = "rush" THEN dest.rushTrips
  ELSE IF selTime = "offpeak" THEN dest.offpeakTrips
  ELSE dest.rushTrips + dest.offpeakTrips

RECURSIVE SumTrips(_, _, _)
SumTrips(dests, vMode, selTime) ==
  IF dests = <<>> THEN 0
  ELSE ApplicableTrips(Head(dests), vMode, selTime)
       + SumTrips(Tail(dests), vMode, selTime)

\* the legend's totalTripMultiplier
TotalTripMultiplier(dests, selDest, vMode, selTime) ==
  LET destinationsForCalc == DestinationsForCalc(dests, selDest)
  IN  IF Len(destinationsForCalc) > 0
      THEN SumTrips(destinationsForCalc, vMode, selTime)
      ELSE 1

\* the legend: shown FALSE is the placeholder without numbers
LegendOf(currentData, dests, selDest, vMode, selTime, dMode) ==
  LET validData == ValidData(currentData)
      durations == [i \in DOMAIN validData |-> validData[i].duration]
      minMinutes == JsRound(FDiv(MinDuration(durations), FInt(60)))
      maxMinutes == JsRound(FDiv(MaxDuration(durations), FInt(60)))
      avgMinutes ==
        JsRound(FDiv(FDiv(SumDuration(durations), FInt(Len(durations))), FInt(60)))
      totalTripMultiplier == FInt(TotalTripMultiplier(dests, selDest, vMode, selTime))
  IN  IF validData = <<>>
      THEN [shown |-> FALSE, min |-> FZero, max |-> FZero, avg |-> FZero]
      ELSE IF dMode = "weekly"
      THEN [shown |-> TRUE,
            min |-> JsRound(FMul(minMinutes, totalTripMultiplier)),
            max |-> JsRound(FMul(maxMinutes, totalTripMultiplier)),
            avg |-> JsRound(FMul(avgMinutes, totalTripMultiplier))]
      ELSE [shown |-> TRUE, min |-> minMinutes, max |-> maxMinutes,
            avg |-> avgMinutes]

\* destinationsForLocation.reduce((sum, dest) => sum + minutes * trips, 0)
RECURSIVE SumWeeklyMinutes(_, _, _, _)
SumWeeklyMinutes(dests, minutes, vMode, selTime) ==
  IF dests = <<>> THEN FZero
  ELSE FAdd(SumWeeklyMinutes(SubSeq(dests, 1, Len(dests) - 1), minutes, vMode,
                             selTime),
            FMul(minutes,
                 FInt(ApplicableTrips(dests[Len(dests)], vMode, selTime))))

\* the number in a marker's tooltip (min/week or min/trip)
TooltipOf(point, dests, selDest, vMode, selTime, dMode) ==
  LET minutes == JsRound(FDiv(point.duration, FInt(60)))
      destinationsForLocation == DestinationsForCalc(dests, selDest)
  IN  IF dMode = "weekly"
      THEN SumWeeklyMinutes(destinationsForLocation, minutes, vMode, selTime)
      ELSE minutes

Legend ==
  LegendOf(getCurrentData, destinations, selectedDestination, viewMode,
           selectedTime, displayMode)

Tooltip(point) ==
  TooltipOf(point, destinations, selectedDestination, viewMode, selectedTime,
            displayMode)

NextDisplay ==
  \/ \E v \in {"individual", "comparison"} : setViewMode(v)
  \/ \E t \in {"rush", "offpeak", "combined"} : setSelectedTime(t)
  \/ \E m \in {"weekly", "per-trip"} : setDisplayMode(m)
  \/ \E x \in {All} \cup DestIds : setSelectedDestination(x)
  \/ \E id \in DestIds : removeDestination(id)

\* the legend and the tooltips over every store, list and view configuration
SpecDisplay == InitReduce /\ [][NextDisplay]_vars

\* the weekly trip count the code multiplies by
Multiplier ==
  SumTrips(DestinationsForCalc(destinations, selectedDestination), viewMode,
           selectedTime)

\* C13: in weekly display mode the value shown for a point (tooltip, and
\* legend min/avg/max) is the per-trip duration times the weekly trip count
\* and only then rounded to whole minutes: round(d x T / 60).
C13_WeeklyRoundsAfterMultiplying ==
  (displayMode = "weekly" /\ Legend.shown) =>
    LET validData == ValidData(Points)
        durations == [i \in DOMAIN validData |-> validData[i].duration]
        Shown(d) == JsRound(FDiv(FMul(d, FInt(Multiplier)), FInt(60)))
    IN  /\ \A i \in DOMAIN validData : Tooltip(validData[i]) = Shown(validData[i].duration)
        /\ Legend.min = Shown(MinDuration(durations))
        /\ Legend.max = Shown(MaxDuration(durations))
        /\ Legend.avg = Shown(FDiv(SumDuration(durations), FInt(Len(durations))))

\* whether a listed destination has a sample set in a slot the current
\* reduction reads
Contributes(dest) ==
  LET inRush == FindSetIdx(travelData.rush, dest.id) # 0
      inOffpeak == FindSetIdx(travelData.offpeak, dest.id) # 0
  IN  IF viewMode = "comparison" \/ selectedTime = "combined"
      THEN inRush \/ inOffpeak
      ELSE IF selectedTime = "rush" THEN inRush ELSE inOffpeak

\* C14: in weekly display mode the trip-count multiplier is the sum of the
\* applicable trip counts over exactly the destinations that contributed
\* samples to the reduction; a listed destination without a sample set in
\* the store does not increase it.
C14_MultiplierOverContributors ==
  (displayMode = "weekly" /\ Legend.shown) =>
    Multiplier =
      SumTrips(SelectSeq(DestinationsForCalc(destinations, selectedDestination),
                         Contributes),
               viewMode, selectedTime)


\* ------------------------------------ batched grid fetch (one destination)
\* The single-destination heatmap: travelData.rush and travelData.offpeak
\* are flat result lists, and fetchTravelTimes queries the grid in batches.
batchSize == 25

\* addresses.slice(i, i + batchSize) for i = 0, batchSize, ...
RECURSIVE BatchesOf(_)
BatchesOf(addrs) ==
  IF addrs = <<>> THEN <<>>
  ELSE IF Len(addrs) <= batchSize THEN << addrs >>
  ELSE << SubSeq(addrs, 1, batchSize) >>
       \o BatchesOf(SubSeq(addrs, batchSize + 1, Len(addrs)))

\* what the provider reports for the origins of one batch
BatchReplies == {"ok300", "ok600", "failed"}

\* response.results of getTravelTimes for a batch
BatchResults(batch, reply) ==
  [k \in DOMAIN batch |->
     IF reply = "failed"
     THEN [origin |-> batch[k], status |-> "FAILED", duration |-> FZero]
     ELSE [origin |-> batch[k], status |-> "OK",
           duration |-> IF reply = "ok300" THEN FInt(300) ELSE FInt(600)]]

\* fetchTravelTimes(timeType) up to its first batch call: the loading flag
\* is set and the grid is split into batches
fetchBatchedStart(timeType) ==
  [pc |-> "batch", timeType |-> timeType, batches |-> BatchesOf(addresses),
   batchIndex |-> 1, allResults |-> <<>>, outcomes |-> <<>>]

\* loadAllData after a fetch has ended: the off-peak fetch is started in
\* the task that ended the rush fetch; after the off-peak fetch the load
\* is over
loadAllDataBatchedResumed(timeType) ==
  IF timeType = "rush" THEN fetchBatchedStart("offpeak") ELSE Idle

\* "Load Traffic Data" (disabled while loading): loadAllData calls
\* fetchTravelTimes("rush")
loadAllDataBatched ==
  /\ ~isLoading
  /\ Len(addresses) > 0
  /\ isLoading' = TRUE
  /\ load' = fetchBatchedStart("rush")
  /\ UNCHANGED << addresses, destinations, travelData, viewVars, mgrVars >>

\* the call for the current batch returns: its results are appended and
\* the 200 ms delay starts
fetchBatchAnswers(reply) ==
  /\ load.pc = "batch"
  /\ load.batchIndex <= Len(load.batches)
  /\ load' = [load EXCEPT
                !.pc = "delay",
                !.allResults = @ \o BatchResults(load.batches[load.batchIndex], reply),
                !.outcomes = Append(@, reply)]
  /\ UNCHANGED << addresses, destinations, travelData, viewVars, isLoading, mgrVars >>

\* the delay after a successful batch elapses: next turn of the loop
fetchBatchDelayElapsed ==
  /\ load.pc = "delay"
  /\ load' = [load EXCEPT !.pc = "batch", !.batchIndex = @ + 1]
  /\ UNCHANGED << addresses, destinations, travelData, viewVars, isLoading, mgrVars >>

\* a fetch that a throwing batch call ends without a store write
fetchBatchThrowsAborting ==
  /\ load.pc = "batch"
  /\ load.batchIndex <= Len(load.batches)
  /\ isLoading' = (load.timeType = "rush")
  /\ load' = loadAllDataBatchedResumed(load.timeType)
  /\ UNCHANGED << addresses, destinations, travelData, viewVars, mgrVars >>

\* the call for the current batch throws: the inner catch logs and the
\* loop continues with the next batch
fetchBatchThrows ==
  /\ load.pc = "batch"
  /\ load.batchIndex <= Len(load.batches)
  /\ load' = [load EXCEPT !.batchIndex = @ + 1, !.outcomes = Append(@, "threw")]
  /\ UNCHANGED << addresses, destinations, travelData, viewVars, isLoading, mgrVars >>

\* after the last batch: the slot of the period is replaced by allResults
\* and the loading flag is cleared; loadAllData resumes in the same task
fetchBatchesDone ==
  /\ load.pc = "batch"
  /\ load.batchIndex > Len(load.batches)
  /\ travelData' = IF load.timeType = "rush"
                   THEN [travelData EXCEPT !.rush = load.allResults]
                   ELSE [travelData EXCEPT !.offpeak = load.allResults]
  /\ isLoading' = (load.timeType = "rush")
  /\ load' = loadAllDataBatchedResumed(load.timeType)
  /\ UNCHANGED << addresses, destinations, viewVars, mgrVars >>

InitBatch ==
  /\ addresses = <<>>
  /\ destinations = <<>>
  /\ travelData = [rush |-> <<>>, offpeak |-> <<>>]
  /\ selectedTime = "rush"
  /\ selectedDestination = All
  /\ viewMode = "individual"
  /\ displayMode = "per-trip"
  /\ isLoading = FALSE
  /\ load = Idle
  /\ InitManager

NextBatch ==
  \/ gridQueryResolved
  \/ loadAllDataBatched
  \/ \E reply \in BatchReplies : fetchBatchAnswers(reply)
  \/ fetchBatchDelayElapsed
  \/ fetchBatchThrows
  \/ fetchBatchesDone

\* the batched fetch of the single-destination heatmap
SpecBatch == InitBatch /\ [][NextBatch]_vars

\* the results of the batches whose call returned, in batch order
RECURSIVE SucceededResults(_, _)
SucceededResults(batches, outcomes) ==
  IF outcomes = <<>> THEN <<>>
  ELSE (IF Head(outcomes) = "threw" THEN <<>>
        ELSE BatchResults(Head(batches), Head(outcomes)))
       \o SucceededResults(Tail(batches), Tail(outcomes))

\* C15: in a batched grid fetch a batch whose call throws is skipped: the
\* fetch ends only after every batch was tried, and the list stored for the
\* period holds the results of every batch that succeeded, earlier or later.
C15_FailedBatchSkipped ==
  [][ ( /\ load.pc = "batch"
        /\ \/ load'.pc = "idle"
           \/ load'.pc = "batch" /\ load'.timeType # load.timeType ) =>
        /\ Len(load.outcomes) = Len(load.batches)
        /\ (IF load.timeType = "rush" THEN travelData'.rush ELSE travelData'.offpeak)
             = SucceededResults(load.batches, load.outcomes) ]_vars

\* the claim's example: 30 origins in batches of 25, the second batch
\* throws and the first batch's 25 results are the stored list
C15_Witness ==
  /\ load.pc = "batch" /\ load.timeType = "offpeak" /\ load.batchIndex = 1
  /\ Len(travelData.rush) = batchSize
  /\ \A k \in 1..batchSize : travelData.rush[k].origin = k


\* ------------------------------------------- multi-destination fetch order
\* position in the captured destination list of the destination a sample
\* set is tagged with
QueriedIdx(destinationId) == FindDestIdx(load.destinations, destinationId)

\* C16: in a multi-destination fetch the destinations are queried one at a
\* time in list order; a destination whose call fails is skipped and the
\* remaining ones are still queried; the returned list is the successful
\* destinations' sample sets in list order, each tagged with the id of the
\* destination it was queried for.
C16_FailedDestinationSkipped ==
  [][ /\ (load.pc \in {"rush", "offpeak"} /\ load'.pc = load.pc /\ load' # load) =>
           /\ load'.i = load.i + 1
           /\ load'.destinations = load.destinations
           /\ \/ load'.allResults = load.allResults
              \/ \E results \in ResultLists :
                   load'.allResults =
                     Append(load.allResults,
                            [destinationId |-> load.destinations[load.i].id,
                             results |-> results])
      /\ (\E kind \in HardFailures : providerFails(kind)) =>
           load'.allResults = load.allResults
      /\ fetchReturns =>
           /\ load.i > Len(load.destinations)
           /\ (IF load.pc = "rush" THEN travelData'.rush ELSE travelData'.offpeak)
                = load.allResults
           /\ \A a, b \in DOMAIN load.allResults :
                a < b => /\ QueriedIdx(load.allResults[a].destinationId) > 0
                         /\ QueriedIdx(load.allResults[a].destinationId)
                              < QueriedIdx(load.allResults[b].destinationId) ]_vars

\* the claim's case: the first of two destinations failed, the second was
\* still queried, and the stored list is the second's sample set alone
C16_Witness ==
  /\ load.pc = "offpeak"
  /\ Len(load.destinations) = 2
  /\ load.i = 1
  /\ Len(travelData.rush) = 1
  /\ travelData.rush[1].destinationId = load.destinations[2].id
  /\ travelData.rush[1].results # <<>>

\* C17: within one load the off-peak fetch starts only after the rush fetch
\* has completed (by its store write or its failure): no off-peak call is
\* issued while the rush request is outstanding, and the rush slot is
\* written before the off-peak slot.
C17_RushBeforeOffpeak ==
  [][ /\ (load'.pc = "offpeak" /\ load.pc # "offpeak") =>
           /\ load.pc = "rush"
           /\ load'.i = 1 /\ load'.allResults = <<>>
           /\ \/ /\ load.i > Len(load.destinations)
                 /\ travelData'.rush = load.allResults
              \/ travelData' = travelData
      /\ travelData'.offpeak # travelData.offpeak => load.pc = "offpeak"
      /\ travelData'.rush # travelData.rush =>
           (load.pc = "rush" /\ load'.pc = "offpeak") ]_vars

\* the off-peak request outstanding after the rush slot was written
C17_Witness ==
  /\ load.pc = "offpeak"
  /\ load.i <= Len(load.destinations)
  /\ travelData.rush # <<>>
  /\ travelData.offpeak = <<>>


\* ------------------------------------------------------ geocoding failures
\* C18: when the geocoding call of addDestination fails no destination is
\* added, the destination list is left as it was, the geocoding error
\* message is set and the geocoding-in-progress flag is cleared.
C18_FailedAddLeavesList ==
  [][ (\E error \in GeocodeRejections : addDestinationRejected(error)) =>
        /\ destinations' = destinations
        /\ geocodingError' # NoError
        /\ isGeocoding' = FALSE
        /\ clock' = clock ]_vars

\* a failed add after a successful one: the error is shown, the form is
\* still open and the list holds the destination added before
C18_Witness ==
  /\ geocodingError # NoError
  /\ ~isGeocoding
  /\ isAddingNew
  /\ geo = NoCall
  /\ Len(destinations) = 1

\* C19: when the geocoding call of an address edit fails the edit is
\* discarded: the edited destination keeps its address, lat and lng, every
\* other destination is unchanged and the geocoding-in-progress flag is
\* cleared.
C19_FailedEditDiscarded ==
  [][ updateDestinationRejected =>
        /\ Len(destinations') = Len(destinations)
        /\ \A i \in DOMAIN destinations :
             IF destinations[i].id = geo.id
             THEN /\ destinations'[i].address = destinations[i].address
                  /\ destinations'[i].lat = destinations[i].lat
                  /\ destinations'[i].lng = destinations[i].lng
             ELSE destinations'[i] = destinations[i]
        /\ isGeocoding' = FALSE ]_vars

\* the geocoding call of an address edit in flight: the edited destination
\* is listed with another address, next to a second destination
C19_Witness ==
  /\ geo.kind = "update"
  /\ isGeocoding
  /\ Len(destinations) = 2
  /\ \E i \in DOMAIN destinations :
       destinations[i].id = geo.id /\ destinations[i].address # geo.address


\* ----------------------------------------------------------- marker colour
NumColorOrigins == 3    \* origins of the stores the colours are checked on

\* durations (seconds) of those stores
ColorDurations == {120, 300, 330}

\* a <= b (false with a NaN operand)
FLessEq(a, b) == ~IsNaN(a) /\ ~IsNaN(b) /\ ~FLess(b, a)

\* Math.max(0, Math.min(1, x)): NaN for NaN
Clamp01(x) ==
  IF IsNaN(x) THEN NaN
  ELSE IF FLess(x, FZero) THEN FZero
  ELSE IF FLess(FInt(1), x) THEN FInt(1)
  ELSE x

\* a normalisation that puts equal bounds at the top of the scale
NormalizedValueEqualIsOne(minutes, minMinutes, maxMinutes) ==
  IF FLess(minMinutes, maxMinutes)
  THEN FDiv(FSub(minutes, minMinutes), FSub(maxMinutes, minMinutes))
  ELSE FInt(1)

\* normalizedValue of getColorIntensity
NormalizedValue(minutes, minMinutes, maxMinutes) ==
  IF FLess(minMinutes, maxMinutes)
  THEN FDiv(FSub(minutes, minMinutes), FSub(maxMinutes, minMinutes))
  ELSE FZero

\* getColorIntensity: the rgb channels of the colour, as the numbers the
\* template string prints
getColorIntensity(duration, minDuration, maxDuration) ==
  LET minutes == FDiv(duration, FInt(60))
      minMinutes == FDiv(minDuration, FInt(60))
      maxMinutes == FDiv(maxDuration, FInt(60))
      intensity == Clamp01(NormalizedValue(minutes, minMinutes, maxMinutes))
  IN  IF FLessEq(intensity, Half)
      THEN [red |-> FFloor(FMul(FMul(FInt(255), intensity), FInt(2))),
            green |-> FInt(255), blue |-> FZero]
      ELSE [red |-> FInt(255),
            green |-> FFloor(FMul(FInt(255),
                                  FSub(FInt(1),
                                       FMul(FSub(intensity, Half), FInt(2))))),
            blue |-> FZero]

\* the intensity getColorIntensity returns next to the colour (marker size)
intensityOf(duration, minDuration, maxDuration) ==
  LET intensity == Clamp01(NormalizedValue(FDiv(duration, FInt(60)),
                                           FDiv(minDuration, FInt(60)),
                                           FDiv(maxDuration, FInt(60))))
  IN  FAdd(FDiv(FInt(3), FInt(10)), FMul(intensity, FDiv(FInt(7), FInt(10))))

\* the grid address the geocode cache of the map has no entry for
UncachedAddress == 49

\* the keys of the geocode cache of the map
GeocodeCacheKeys == (1..GridSize) \ {UncachedAddress}

\* the markers of the map: one per valid point whose origin is in the
\* geocode cache, coloured on the scale of the smallest and the largest
\* valid duration
MarkersOf(data) ==
  LET validData == ValidData(data)
      durations == [k \in DOMAIN validData |-> validData[k].duration]
      minDuration == IF durations = <<>> THEN FZero ELSE MinDuration(durations)
      maxDuration == IF durations = <<>> THEN FZero ELSE MaxDuration(durations)
      drawn == SelectSeq(validData, LAMBDA point : point.origin \in GeocodeCacheKeys)
  IN  [k \in DOMAIN drawn |->
         [origin |-> drawn[k].origin,
          duration |-> drawn[k].duration,
          color |-> getColorIntensity(drawn[k].duration, minDuration, maxDuration)]]

Markers == MarkersOf(getCurrentData)

\* the origins of a store: the first grid addresses, or the same with the
\* uncached address in the last place
ColorOriginLists ==
  { [k \in 1..NumColorOrigins |-> k],
    [k \in 1..NumColorOrigins |-> IF k = NumColorOrigins THEN UncachedAddress ELSE k] }

\* sample lists of one destination with an OK sample for every origin
ColorResultLists(origins) ==
  { [k \in DOMAIN origins |->
       [origin |-> origins[k], status |-> "OK", duration |-> FInt(f[k])]]
    : f \in [DOMAIN origins -> ColorDurations] }

\* those with one duration for every origin
ColorEqualLists(origins) ==
  { r \in ColorResultLists(origins) :
      \A j, k \in DOMAIN r : r[j].duration = r[k].duration }

\* sample lists of a destination that was routed from some of the origins,
\* in the shortest of the durations
ColorPartialLists(origins) ==
  LET shortest == CHOOSE d \in ColorDurations : \A x \in ColorDurations : d <= x
  IN  { [k \in DOMAIN origins |->
           IF k \in S
           THEN [origin |-> origins[k], status |-> "OK", duration |-> FInt(shortest)]
           ELSE [origin |-> origins[k], status |-> "FAILED", duration |-> FZero]]
        : S \in SUBSET DOMAIN origins }

\* the destination lists of the coloured stores: one destination, or two of
\* which the second has the rush trip count -1.  The trip-count inputs store
\* parseInt(value) || 0, whatever whole number is typed.
ColorDestLists ==
  { dl \in LoadDestLists : Len(dl) = 1 /\ dl[1].id = 1 }
    \cup { [dl EXCEPT ![2].rushTrips = -1] : dl \in { x \in LoadDestLists : Len(x) = 2 } }

InitColor ==
  /\ addresses = getSanFranciscoGrid
  /\ destinations \in ColorDestLists
  /\ \E origins \in ColorOriginLists :
       IF Len(destinations) = 1
       THEN travelData \in
              [rush : { << [destinationId |-> 1, results |-> r] >>
                        : r \in ColorResultLists(origins) },
               offpeak : { << [destinationId |-> 1, results |-> r] >>
                           : r \in ColorResultLists(origins) }]
       ELSE travelData \in
              [rush : { << [destinationId |-> 1, results |-> r[1]],
                           [destinationId |-> 2, results |-> r[2]] >>
                        : r \in ColorResultLists(origins)
                                  \X ColorPartialLists(origins) },
               offpeak : { << [destinationId |-> 1, results |-> r] >>
                           : r \in ColorEqualLists(origins) }]
  /\ InitView
  /\ InitManager

NextColor ==
  \/ \E v \in {"individual", "comparison"} : setViewMode(v)
  \/ \E t \in {"rush", "offpeak", "combined"} : setSelectedTime(t)

\* the colours of the markers under the view controls
SpecColor == InitColor /\ [][NextColor]_vars

\* the durations the colour scale is taken from
ScaleDurations ==
  LET validData == ValidData(getCurrentData)
  IN  [k \in DOMAIN validData |-> validData[k].duration]

PureGreen == [red |-> FZero, green |-> FInt(255), blue |-> FZero]

PureRed == [red |-> FInt(255), green |-> FZero, blue |-> FZero]

\* C20: for min = M < max = N the colour of M is pure green, the colour of
\* N is pure red, blue is 0 for every input, and from M to N red does not
\* decrease and green does not increase.
C20_GreenToRed ==
  LET mk == Markers
      durations == ScaleDurations
  IN  durations # <<>> =>
        LET M == MinDuration(durations)
            N == MaxDuration(durations)
        IN  /\ \A k \in DOMAIN mk : mk[k].color.blue = FZero
            /\ FLess(M, N) =>
                 /\ getColorIntensity(M, M, N) = PureGreen
                 /\ getColorIntensity(N, M, N) = PureRed
                 /\ \A k \in DOMAIN mk :
                      /\ mk[k].duration = M => mk[k].color = PureGreen
                      /\ mk[k].duration = N => mk[k].color = PureRed
                 /\ \A j, k \in DOMAIN mk :
                      FLess(mk[j].duration, mk[k].duration) =>
                        /\ FLessEq(mk[j].color.red, mk[k].color.red)
                        /\ FLessEq(mk[k].color.green, mk[j].color.green)

\* the durations getColorIntensity is tried on
ColorInputs ==
  { FInt(d) : d \in ColorDurations } \cup {Infinity, NegInfinity, NaN}

\* C21: when minDuration = maxDuration getColorIntensity divides by nothing,
\* uses the normalized value 0 and returns the green endpoint with
\* intensity 0.3, for every duration (the infinite ones and NaN included).
C21_EqualBoundsGreen ==
  LET mk == Markers
      durations == ScaleDurations
  IN  (durations # <<>> /\ MinDuration(durations) = MaxDuration(durations)) =>
        LET M == MinDuration(durations)
        IN  /\ \A k \in DOMAIN mk : mk[k].color = PureGreen
            /\ \A d \in ColorInputs :
                 /\ NormalizedValue(FDiv(d, FInt(60)), FDiv(M, FInt(60)),
                                    FDiv(M, FInt(60))) = FZero
                 /\ getColorIntensity(d, M, M) = PureGreen
                 /\ intensityOf(d, M, M) = FDiv(FInt(3), FInt(10))

\* three markers of one duration, the largest a duration can be: every
\* origin has the weight 1 - 1 = 0 under a positive total time
C21_Witness ==
  LET mk == Markers
  IN  /\ Len(mk) = 3
      /\ \A k \in DOMAIN mk : mk[k].duration = Infinity
      /\ \A k \in DOMAIN mk : mk[k].color = PureGreen


\* ---------------------------------------------------------- departure time
\* Time is counted in half hours from local midnight of day 0.  The host's
\* time zone keeps its offset, or changes it once, in the night of day 1:
\*   fallBack           02:00 is turned back to 01:00
\*   springForward      02:00 is put forward to 03:00
\*   fallBackOver3      04:00 is turned back to 03:00 (03:00 occurs twice)
\*   springForwardOver3 03:00 is put forward to 04:00 (03:00 is skipped)
\*   halfHourBack       02:00 is turned back to 01:30
\*   halfHourForward    02:00 is put forward to 02:30
LastTick == 100     \* the requests arrive at half hours 0..LastTick

Zones == {"none", "fallBack", "springForward", "fallBackOver3",
          "springForwardOver3", "halfHourBack", "halfHourForward"}

\* the change of a zone: the instant at which it happens and the half hours
\* it adds to the local clock
ZoneChange(zone) ==
  [at |-> IF zone = "fallBackOver3" THEN 48 + 8
          ELSE IF zone = "springForwardOver3" THEN 48 + 6
          ELSE 48 + 4,
   shift |-> CASE zone = "none" -> 0
               [] zone \in {"fallBack", "fallBackOver3"} -> -2
               [] zone \in {"springForward", "springForwardOver3"} -> 2
               [] zone = "halfHourBack" -> -1
               [] zone = "halfHourForward" -> 1]

\* the local clock reading (half hours since local midnight of day 0) at an
\* instant
LocalClock(t, zone) ==
  IF t < ZoneChange(zone).at THEN t ELSE t + ZoneChange(zone).shift

\* the instant of a local clock reading L.  A reading that occurs twice is
\* taken at its first occurrence; a reading the clock skips is taken with
\* the offset before the change, one skip later on the clock.
InstantOf(L, zone) ==
  IF L >= ZoneChange(zone).at /\ L - ZoneChange(zone).shift >= ZoneChange(zone).at
  THEN L - ZoneChange(zone).shift
  ELSE L

\* targetDate.setHours(targetHour, 0, 0, 0) on a copy of now
SetHours(now, targetHour, zone) ==
  InstantOf(48 * (LocalClock(now, zone) \div 48) + 2 * targetHour, zone)

\* targetDate.setDate(targetDate.getDate() + 1)
SetNextDate(targetDate, zone) ==
  InstantOf(LocalClock(targetDate, zone) + 48, zone)

TargetHour(departureTime) == IF departureTime = "rush" THEN 17 ELSE 3

\* a target that stays today when it equals now
DepartureTargetNotAfterNow(now, departureTime, zone) ==
  LET targetDate == SetHours(now, TargetHour(departureTime), zone)
  IN  IF targetDate < now THEN SetNextDate(targetDate, zone) ELSE targetDate

\* the departure time of a request received at now
DepartureTarget(now, departureTime, zone) ==
  LET targetDate == SetHours(now, TargetHour(departureTime), zone)
  IN  IF targetDate <= now THEN SetNextDate(targetDate, zone) ELSE targetDate

\* time passes on the server
tick ==
  /\ clock < LastTick
  /\ clock' = clock + 1
  /\ UNCHANGED << destinations, travelData, viewVars, loadVars, isAddingNew,
                  isGeocoding, geocodingError, newDestination,
                  editingDestination, geo >>

\* a travel-time request arrives and its departure time is computed
computeDepartureTime(departureTime) ==
  /\ load' = [pc |-> "departure", zone |-> load.zone,
              departureTime |-> departureTime, now |-> clock,
              targetDate |-> DepartureTarget(clock, departureTime, load.zone)]
  /\ UNCHANGED << addresses, destinations, travelData, viewVars, isLoading, mgrVars >>

InitDeparture ==
  /\ addresses = <<>>
  /\ destinations = <<>>
  /\ travelData = [rush |-> <<>>, offpeak |-> <<>>]
  /\ selectedTime = "combined"
  /\ selectedDestination = All
  /\ viewMode = "individual"
  /\ displayMode = "weekly"
  /\ isLoading = FALSE
  /\ load \in { [pc |-> "idle", zone |-> z] : z \in Zones }
  /\ InitManager

NextDeparture ==
  \/ tick
  \/ \E departureTime \in {"rush", "offpeak"} : computeDepartureTime(departureTime)

\* the departure times of the requests of three days
SpecDeparture == InitDeparture /\ [][NextDeparture]_vars

\* the target is at the period's clock time, after now, and the next such
\* instant
NextOccurrence ==
  LET h == 2 * TargetHour(load.departureTime)
  IN  /\ LocalClock(load.targetDate, load.zone) % 48 = h
      /\ load.targetDate > load.now
      /\ \A t \in (load.now + 1)..(load.targetDate - 1) :
           LocalClock(t, load.zone) % 48 # h

\* C22: the departure target of a request is at clock time 17:00 for rush
\* and 03:00 for offpeak, strictly later than the current time, and the next
\* occurrence of that clock time, hence at most 24 hours ahead.
C22_NextOccurrenceWithin24h ==
  load.pc = "departure" =>
    /\ NextOccurrence
    /\ load.targetDate - load.now <= 48

\* no instant shows the local clock reading L
Skipped(L, zone) == LocalClock(InstantOf(L, zone), zone) # L

\* the instant t shows its clock reading for the first time
FirstOccurrence(t, zone) ==
  \A u \in 0..(t - 1) : LocalClock(u, zone) # LocalClock(t, zone)

\* the half hours the clock is turned back between two instants
TurnedBack(from, to, zone) ==
  IF ZoneChange(zone).shift < 0 /\ from < ZoneChange(zone).at /\ ZoneChange(zone).at <= to
  THEN -ZoneChange(zone).shift
  ELSE 0

\* C22 amended: the target is strictly later than now.  In the host's local
\* time it shows the period's clock time and is the next instant that shows
\* it for the first time on its day: of a clock time that occurs twice the
\* first occurrence counts.  When the clock skips the clock time on the day
\* of the request or of the target, the target shows the reading one skip
\* later instead.  The target is at most 24 hours ahead, and when the clock
\* is turned back between the request and the target, at most 24 hours and
\* the amount turned back.
C22_NextOccurrenceLocalTime ==
  load.pc = "departure" =>
    LET h == 2 * TargetHour(load.departureTime)
        zone == load.zone
        reading == LocalClock(load.targetDate, zone) % 48
        dayOfNow == LocalClock(load.now, zone) \div 48
        dayOfTarget == LocalClock(load.targetDate, zone) \div 48
    IN  /\ load.targetDate > load.now
        /\ load.targetDate - load.now
             <= 48 + TurnedBack(load.now, load.targetDate, zone)
        /\ IF \/ Skipped(48 * dayOfNow + h, zone)
              \/ Skipped(48 * dayOfTarget + h, zone)
           THEN reading = h + ZoneChange(zone).shift
           ELSE /\ reading = h
                /\ FirstOccurrence(load.targetDate, zone)
                /\ \A t \in (load.now + 1)..(load.targetDate - 1) :
                     ~(LocalClock(t, zone) % 48 = h /\ FirstOccurrence(t, zone))

\* a request arriving exactly at the target's clock time on the day before
\* the clock is turned back: the target rolls to the next day, more than 24
\* hours ahead
C22_Witness ==
  /\ load.pc = "departure"
  /\ LocalClock(load.now, load.zone) % 48 = 2 * TargetHour(load.departureTime)
  /\ TurnedBack(load.now, load.targetDate, load.zone) > 0
  /\ load.targetDate - load.now
       = 48 + TurnedBack(load.now, load.targetDate, load.zone)


\* ----------------------------------------------------------- loading flag
\* C23: from the start of a load until both its fetches have finished the
\* loading flag is true in every intermediate state, so the load trigger is
\* disabled and no second load starts while one is in flight: a fetch for
\* the rush slot is started only when no load is in progress, and one for
\* the off-peak slot only by the load whose rush fetch has ended.
C23_LoadingThroughout ==
  [][ /\ load.pc \in {"rush", "offpeak"} => isLoading
      /\ load'.pc \in {"rush", "offpeak"} => isLoading'
      /\ (load'.pc = "rush" /\ (load.pc # "rush" \/ load'.i < load.i)) =>
           (load.pc = "idle" /\ ~isLoading)
      /\ (load'.pc = "offpeak" /\ (load.pc # "offpeak" \/ load'.i < load.i)) =>
           (load.pc = "rush" /\ load'.destinations = load.destinations) ]_vars

\* the last provider call of the off-peak fetch has answered, the rush
\* slot is written, and the flag is still set
C23_Witness ==
  /\ load.pc = "offpeak"
  /\ load.i > Len(load.destinations)
  /\ isLoading
  /\ travelData.rush # <<>>


\* ------------------------------------------------------ frame of the store
\* the operations of the page together: destination manager, view
\* controls and loading, from a page that holds one destination.  Each
\* operation has one input: the second destination is the one added, edited
\* and removed, every view control is set to a value other than its first
\* one, and the provider answers every call of a load with one sample (its
\* failures are the subject of SpecLoad).
InitFrame ==
  /\ addresses = <<>>
  /\ destinations \in { dl \in LoadDestLists : Len(dl) = 1 /\ dl[1].id = 1 }
  /\ travelData = [rush |-> <<>>, offpeak |-> <<>>]
  /\ InitView
  /\ isAddingNew = FALSE
  /\ isGeocoding = FALSE
  /\ geocodingError = NoError
  /\ newDestination = EmptyForm
  /\ editingDestination = NoEdit
  /\ geo = NoCall
  /\ clock = 1

NextFrame ==
  \/ gridQueryResolved
  \/ openAddForm
  \/ setNewDestination("name", "Office")
  \/ setNewDestination("address", Text(2))
  \/ cancelAdd
  \/ addDestination
  \/ addDestinationResolved
  \/ addDestinationRejected([isError |-> FALSE, message |-> ""])
  \/ startEditing(2)
  \/ updateEditingValue(Text(1))
  \/ cancelEdit
  \/ commitEdit
  \/ updateDestinationResolved
  \/ updateDestinationRejected
  \/ updateTrips(2, "rushTrips", 2)
  \/ updateName(2, "Home")
  \/ removeDestination(2)
  \/ setViewMode("comparison")
  \/ setSelectedTime("rush")
  \/ setDisplayMode("per-trip")
  \/ setSelectedDestination(2)
  \/ loadAllData
  \/ providerAnswers(<< [origin |-> 1, status |-> "OK", duration |-> FInt(300)] >>)
  \/ fetchReturns
  \/ fetchThrows

\* the page under all its operations
SpecFrame == InitFrame /\ [][NextFrame]_vars


\* C24: the store slot of a period changes only when a fetch for that
\* period completes, and is then replaced wholesale by that fetch's result
\* while the other slot is unchanged; adding, editing or removing a
\* destination and changing a view-config field leave both slots unchanged.
C24_StoreFrame ==
  [][ /\ travelData'.rush # travelData.rush =>
           /\ load.pc = "rush" /\ load'.pc = "offpeak"
           /\ travelData'.rush = load.allResults
           /\ travelData'.offpeak = travelData.offpeak
      /\ travelData'.offpeak # travelData.offpeak =>
           /\ load.pc = "offpeak" /\ load'.pc = "idle"
           /\ travelData'.offpeak = load.allResults
           /\ travelData'.rush = travelData.rush
      /\ (destinations' # destinations \/ viewVars' # viewVars) =>
           travelData' = travelData ]_vars

\* a loaded store whose rush slot still holds the sample set of a
\* destination that was removed afterwards
C24_Witness ==
  /\ load.pc = "idle"
  /\ \E k \in DOMAIN travelData.rush :
       FindDestIdx(destinations, travelData.rush[k].destinationId) = 0
  /\ travelData.offpeak # <<>>


\* C25: between any two consecutive provider calls of one fetch the fixed
\* delay elapses, also when the earlier of the two calls failed: the call
\* for the next batch is issued only out of the delay.
C25_DelayBetweenCalls ==
  [][ ( /\ load.pc \in {"batch", "delay"}
        /\ load'.pc = "batch"
        /\ load'.timeType = load.timeType
        /\ load'.batchIndex = load.batchIndex + 1
        /\ load'.batchIndex <= Len(load'.batches) )
      => load.pc = "delay" ]_vars


\* the route-matrix request the multi-destination procedure builds for one
\* destination: every origin it was handed, in order, and that destination
requestBody(origins, destination) ==
  [origins |-> origins, destinations |-> << destination.id >>]

\* C26: every route-matrix request for a full-grid query carries at most
\* batchSize origins, in the multi-destination fetch as in the batched one.
C26_RequestWithinBatchSize ==
  (load.pc \in {"rush", "offpeak"} /\ load.i <= Len(load.destinations))
    => Len(requestBody(addresses, load.destinations[load.i]).origins) <= batchSize


(***************************************************************************)
(* The mapping of a provider response to samples                           *)
(* (getTravelTimes and getTravelTimesMultiDestination).                    *)
(***************************************************************************)

MaxOrigins == 2     \* a request carries 1..MaxOrigins origins
MaxElements == 2    \* a response array has 1..MaxElements elements

OriginNames == [k \in 1..MaxOrigins |-> << "address", k >>]

\* the origins of a request
OriginLists == { SubSeq(OriginNames, 1, n) : n \in 1..MaxOrigins }

\* the status member of an element: missing, null, or an object with
\* some of the keys code and message
Statuses ==
  { [kind |-> "absent", keys |-> {}], [kind |-> "null", keys |-> {}] }
    \cup { [kind |-> "object", keys |-> K] : K \in SUBSET {"code", "message"} }

\* the duration member: missing, or a string given as its characters
DurationTexts ==
  { [present |-> FALSE, text |-> <<>>],
    [present |-> TRUE, text |-> << "3", "0", "0", "s" >>],
    [present |-> TRUE, text |-> << "1", "2", ".", "5", "s" >>],
    [present |-> TRUE, text |-> << "1", "e", "3", "s" >>],
    [present |-> TRUE, text |-> << "-", "5", "s" >>],
    [present |-> TRUE, text |-> << " ", "4", "2", "s" >>],
    [present |-> TRUE, text |-> << "U+00A0", "\t", "7", "s" >>],
    [present |-> TRUE, text |-> << "I", "n", "f", "i", "n", "i", "t", "y", "s" >>],
    [present |-> TRUE, text |-> << "s" >>] }

\* the elements a response can hold; originIndex is missing or any index
\* from 0 up to one past the last origin of the longest request
Elements ==
  [ hasOriginIndex : {TRUE}, originIndex : 0..MaxOrigins,
    status : Statuses, duration : DurationTexts ]
    \cup [ hasOriginIndex : {FALSE}, originIndex : {0},
           status : Statuses, duration : DurationTexts ]

\* a parsed response body: an array of elements or one element
Bodies ==
  { [isArray |-> FALSE, value |-> << e >>] : e \in Elements }
    \cup { [isArray |-> TRUE, value |-> es] :
             es \in UNION { [1..n -> Elements] : n \in 1..MaxElements } }

\* Array.isArray(data) ? data : [data]
routeMatrixOf(data) == data.value

\* str.replace('s', ''): the first "s" is removed
RECURSIVE replaceS(_)
replaceS(str) ==
  IF str = <<>> THEN <<>>
  ELSE IF Head(str) = "s" THEN Tail(str)
  ELSE << Head(str) >> \o replaceS(Tail(str))

DigitOf(c) ==
  CASE c = "0" -> 0 [] c = "1" -> 1 [] c = "2" -> 2 [] c = "3" -> 3
    [] c = "4" -> 4 [] c = "5" -> 5 [] c = "6" -> 6 [] c = "7" -> 7
    [] c = "8" -> 8 [] c = "9" -> 9 [] OTHER -> -1

\* the value of the leading digits of str, read after acc
RECURSIVE DigitsValue(_, _)
DigitsValue(str, acc) ==
  IF str = <<>> \/ DigitOf(Head(str)) < 0 THEN acc
  ELSE DigitsValue(Tail(str), 10 * acc + DigitOf(Head(str)))

\* the characters parseFloat skips at the start of a string
\* (StrWhiteSpaceChar: white space and line terminators).  A character
\* outside ASCII is written by its code point.
WhiteSpace ==
  { " ", "\t", "\n", "\r", "\f", "U+000B", "U+00A0", "U+FEFF", "U+2028", "U+2029",
    "U+1680", "U+2000", "U+2001", "U+2002", "U+2003", "U+2004", "U+2005",
    "U+2006", "U+2007", "U+2008", "U+2009", "U+200A", "U+202F", "U+205F",
    "U+3000" }

\* parseFloat: white space at the start is skipped; then the longest
\* prefix that is a decimal literal is read: an optional sign, then
\* Infinity, or digits with an optional point and fraction digits (digits
\* on at least one side of the point), then an exponent when e or E is
\* followed by an optional sign and at least one digit.  NaN when there is
\* no such prefix.  A finite value is the double nearest to the decimal
\* that was read.
parseFloat(str) ==
  LET Digits == {"0", "1", "2", "3", "4", "5", "6", "7", "8", "9"}
      lead(t, S) == Cardinality({ k \in 1..Len(t) : \A i \in 1..k : t[i] \in S })
      from(t, k) == SubSeq(t, k, Len(t))
      trimmed == from(str, lead(str, WhiteSpace) + 1)
      hasSign == trimmed # <<>> /\ trimmed[1] \in {"+", "-"}
      negative == hasSign /\ trimmed[1] = "-"
      unsigned == IF hasSign THEN Tail(trimmed) ELSE trimmed
      isInfinity ==
        /\ Len(unsigned) >= 8
        /\ SubSeq(unsigned, 1, 8) = << "I", "n", "f", "i", "n", "i", "t", "y" >>
      intLen == lead(unsigned, Digits)
      afterInt == from(unsigned, intLen + 1)
      hasPoint == afterInt # <<>> /\ afterInt[1] = "."
      fracLen == IF hasPoint THEN lead(Tail(afterInt), Digits) ELSE 0
      afterFrac == IF hasPoint THEN from(afterInt, fracLen + 2) ELSE afterInt
      hasE == afterFrac # <<>> /\ afterFrac[1] \in {"e", "E"}
      afterE == IF hasE THEN Tail(afterFrac) ELSE <<>>
      expSign == afterE # <<>> /\ afterE[1] \in {"+", "-"}
      expDigits == IF expSign THEN Tail(afterE) ELSE afterE
      expLen == lead(expDigits, Digits)
      expValue == DigitsValue(SubSeq(expDigits, 1, expLen), 0)
      exponent == IF expSign /\ afterE[1] = "-" THEN -expValue ELSE expValue
      mantissa ==
        DigitsValue(SubSeq(unsigned, 1, intLen)
                      \o (IF hasPoint THEN SubSeq(afterInt, 2, fracLen + 1) ELSE <<>>),
                    0)
      signed == IF negative THEN -mantissa ELSE mantissa
      scale == exponent - fracLen
  IN  IF isInfinity THEN (IF negative THEN NegInfinity ELSE Infinity)
      ELSE IF intLen + fracLen = 0 THEN NaN
      ELSE IF scale >= 0 THEN FInt(signed * 10 ^ scale)
      ELSE FDiv(FInt(signed), FInt(10 ^ (-scale)))

\* element.duration ? parseFloat(element.duration.replace('s', '')) : 0
durationSeconds(element) ==
  IF element.duration.present /\ element.duration.text # <<>>
  THEN parseFloat(replaceS(element.duration.text))
  ELSE FZero

\* element.originIndex ?? 0
originIndexOf(element) ==
  IF element.hasOriginIndex THEN element.originIndex ELSE 0

\* origins[originIndex] ?? "Unknown"  (origins is 0-based in the source)
originAddress(origins, element) ==
  IF originIndexOf(element) < Len(origins)
  THEN origins[originIndexOf(element) + 1]
  ELSE << "Unknown", 0 >>

\* a mapping that takes every present status object for a failure
isSuccessOnlyAbsent(element) == element.status.kind \in {"absent", "null"}

\* !element.status || Object.keys(element.status).length === 0
isSuccess(element) ==
  \/ element.status.kind \in {"absent", "null"}
  \/ Cardinality(element.status.keys) = 0

\* the sample made of one element (the members aggregation reads)
mapElement(origins, element) ==
  [ origin |-> originAddress(origins, element),
    duration |-> durationSeconds(element),
    status |-> IF isSuccess(element) THEN "OK" ELSE "FAILED" ]

\* routeMatrix.map(...)
mapRouteMatrix(origins, data) ==
  [k \in DOMAIN routeMatrixOf(data) |-> mapElement(origins, routeMatrixOf(data)[k])]

\* the provider answers a request for some origins with some body
routesApiResponds ==
  /\ load.pc = "idle"
  /\ \E origins \in OriginLists, data \in Bodies :
       load' = [pc |-> "responded", origins |-> origins, data |-> data]
  /\ UNCHANGED << addresses, destinations, travelData, viewVars, isLoading, mgrVars >>

\* the body is mapped to samples
resultsMapped ==
  /\ load.pc = "responded"
  /\ load' = [pc |-> "mapped", origins |-> load.origins, data |-> load.data,
              results |-> mapRouteMatrix(load.origins, load.data)]
  /\ UNCHANGED << addresses, destinations, travelData, viewVars, isLoading, mgrVars >>

InitMap == InitBatch

NextMap ==
  \/ routesApiResponds
  \/ resultsMapped

SpecMap == InitMap /\ [][NextMap]_vars

\* the status object of an element is absent or has no keys
StatusEmpty(element) ==
  element.status.kind \in {"absent", "null"} \/ element.status.keys = {}

\* C27 as stated: one sample per element, OK exactly when the status
\* object is absent or has no keys and FAILED otherwise, and the sample's
\* origin is the request origin at the element's originIndex.
C27_SampleOfElement ==
  load.pc = "mapped" =>
    LET rm == routeMatrixOf(load.data) IN
    /\ Len(load.results) = Len(rm)
    /\ \A k \in DOMAIN rm :
         /\ load.results[k].status = (IF StatusEmpty(rm[k]) THEN "OK" ELSE "FAILED")
         /\ rm[k].hasOriginIndex
         /\ rm[k].originIndex < Len(load.origins)
         /\ load.results[k].origin = load.origins[rm[k].originIndex + 1]

\* C27, amended: one sample per element, OK exactly when the status
\* object is absent or has no keys and FAILED otherwise; the sample's
\* origin is the request origin at the element's originIndex, taken as 0
\* when the element has none, and "Unknown" when the request has no origin
\* at that index.
C27_SampleOfElementDefaults ==
  load.pc = "mapped" =>
    LET rm == routeMatrixOf(load.data) IN
    /\ Len(load.results) = Len(rm)
    /\ \A k \in DOMAIN rm :
         LET idx == IF rm[k].hasOriginIndex THEN rm[k].originIndex ELSE 0 IN
         /\ load.results[k].status = (IF StatusEmpty(rm[k]) THEN "OK" ELSE "FAILED")
         /\ load.results[k].origin =
              (IF idx < Len(load.origins) THEN load.origins[idx + 1]
               ELSE << "Unknown", 0 >>)

\* a mapped response with an OK sample of an empty status object, a
\* FAILED sample, and a sample whose origin was defaulted
C27_Witness ==
  /\ load.pc = "mapped"
  /\ Len(load.results) = 2
  /\ routeMatrixOf(load.data)[1].status = [kind |-> "object", keys |-> {}]
  /\ load.results[1].status = "OK"
  /\ load.results[2].status = "FAILED"
  /\ ~routeMatrixOf(load.data)[2].hasOriginIndex
  /\ load.results[2].origin = load.origins[1]


\* C28: in every reachable state the destination filter is All or the id
\* of a destination currently in the destination list.
C28_FilterRefersToListed ==
  selectedDestination = All \/ Listed(selectedDestination)


\* two lists hold the same destinations in the same order, up to their
\* address and coordinates
SameButAddress(a, b) ==
  /\ Len(a) = Len(b)
  /\ \A i \in DOMAIN a :
       /\ a[i].id = b[i].id
       /\ a[i].name = b[i].name
       /\ a[i].rushTrips = b[i].rushTrips
       /\ a[i].offpeakTrips = b[i].offpeakTrips

\* C29: destination-list updates are not lost under interleaving: when the
\* geocoding call of an add or an address edit completes, the list is the
\* list as the operations applied meanwhile left it, with the new
\* destination appended or the edited address replaced.
C29_NoLostUpdate ==
  [][ (geo.kind # "none" /\ geo'.kind = "none") =>
        \/ destinations' = destinations
        \/ /\ geo.kind = "add"
           /\ Len(destinations') = Len(destinations) + 1
           /\ SubSeq(destinations', 1, Len(destinations)) = destinations
        \/ /\ geo.kind = "update"
           /\ SameButAddress(destinations, destinations') ]_vars


\* the destination ids of the sample sets of a slot, in order
SlotIds(slot) == [k \in DOMAIN slot |-> slot[k].destinationId]

\* C30: after a load-all operation finishes, the rush and the off-peak
\* slot hold sample sets for the same sequence of destination ids, the
\* destination list as it was when the load was started.
C30_SameIdsInBothSlots ==
  [][ (load.pc = "offpeak" /\ load'.pc = "idle") =>
        /\ SlotIds(travelData'.rush) = SlotIds(travelData'.offpeak)
        /\ SlotIds(travelData'.rush) =
             [k \in DOMAIN load.destinations |-> load.destinations[k].id] ]_vars

=============================================================================
